---- MODULE Spec2Model ----
(***************************************************************************)
(* pyAirfocusTools: the workspace hierarchy builder, the folder hierarchy  *)
(* builder, the role / extension scripts and the OKR classifier.           *)
(*                                                                         *)
(* Identifiers (workspace, folder, user, group ids) are positive integers; *)
(* NoId is a missing or empty id (None / "").  Text is a sequence of       *)
(* one-character strings, so that lower(), "in", startswith and endswith   *)
(* are computed character by character.                                    *)
(***************************************************************************)
EXTENDS Integers, Sequences, FiniteSets, TLC

\* ---------------------------------------------------------------- bounds
MaxWs == 3        \* workspace ids are 1..MaxWs
MaxRel == 3       \* longest relation list returned by the API
MaxFolders == 3   \* folder ids are 1..MaxFolders
MaxFhWs == 2      \* workspace ids seen by the folder builder are 1..MaxFhWs
MaxUsers == 2     \* registry users are 1..MaxUsers
MaxGroups == 1    \* most user groups the server holds
MaxMembers == 2   \* longest member list of a group
MaxObjectives == 2 \* most identifiers given to --objective-workspaces
MaxTargets == 2   \* most workspaces in the target folder
MaxText == 3      \* longest namespace / typeId / itemType text
MaxUserPerms == 2 \* most entries of a per-user permission map
MaxGroupPerms == 1 \* most entries of a per-group permission map
MaxItems == 3     \* most workspaces and folders of a reported hierarchy
MaxLibGroups == 2 \* most groups the server holds for the library
MaxLibMembers == 2 \* longest member list of such a group
MaxRoleCalls == 1 \* most role requests of a library process
MaxTotal == 5     \* most workspaces the server holds for the paginated fetch
MaxLeafGroups == 2 \* most group entries of a checked node without children
MaxDepth == 1     \* deepest level a checked node is formatted at
MaxOptions == 2   \* most options a field has
MaxInput == 2     \* most names in the --input file
MaxLicUsers == 2  \* users of the licence analysis
MaxLicGroups == 2 \* groups of the licence analysis
MaxRunWs == 3     \* workspaces of a run of get_okr_compliance
MaxRunRel == 2    \* workspace relations of a run of get_okr_compliance

\* ------------------------------------------------------------- constants
NoId == 0         \* a falsy id: relation.get('parentId') is None or ""

VARIABLES
    \* build_workspace_hierarchy (utils.py)
    wh_pc,          \* "start", "maps", "roots", "done", "exit"
    workspaces,     \* the workspace list passed in (ids, in list order)
    api_relations,  \* what POST /workspace-relations/search holds
    relations,      \* response.get('items', [])
    children_map,   \* parentId -> <<childIds>>
    parent_map,     \* childId -> parentId
    roots,          \* the forest under construction / returned
    node_map,       \* root id -> node
    \* build_folder_hierarchy (utils.py)
    fh_pc,              \* "start", "list", "maps", "build", "done", "exit", "raised"
    fh_workspaces,      \* the workspace list passed in (ids, in list order)
    api_folders,        \* the folders the server holds
    folders_basic,      \* items of POST /groups/search
    folders_with_embed, \* ordered dict folder id -> folder with details
    workspace_to_folder,\* ordered dict workspace id -> folder id
    folder_children,    \* folder id -> <<child folder ids>>
    folder_parent,      \* folder id -> parent folder id
    fh_roots,           \* the forest returned
    fh_warnings,        \* number of "Warning: ..." lines printed
    fh_list_outcome,    \* how the /groups/list request ended
    fh_search_outcome,  \* how the /groups/search request ended
    \* set_role.py, set_editor_role.py, set_workspace_extension.py
    script,             \* which script runs
    sc_pc,              \* position in main()
    args,               \* parsed command-line arguments
    api_users,          \* GET /api/team/users
    api_groups,         \* items of POST /api/team/user-groups/search
    user_registry,      \* _user_registry: userId -> user
    group_registry,     \* _group_registry: ordered dict of groups
    registries_loaded,  \* _registries_loaded
    member_ids,         \* members to process
    idx,                \* position of the running for loop
    changes_to_make,    \* set_role.py first pass
    skip_count,         \* skipped users
    success_count,
    error_count,
    requests,           \* mutating API requests issued so far
    confirmed,          \* answer given at the confirmation prompt
    exit_code,          \* process exit code, -1 while running
    reported,           \* messages printed about missing entities
    api_workspace_names,\* workspace registry: name -> id
    api_folder,         \* workspaces of the folder named by --folder
    app_id,
    objective_ws_ids,
    target_workspaces,  \* set_workspace_extension.py: workspaces
    \* is_okr_workspace (get_okr_compliance.py, list_okr_access.py)
    okr_pc,
    okr_workspace,      \* the workspace dict passed in
    okr_compliance,     \* result of get_okr_compliance.is_okr_workspace
    okr_access,         \* result of list_okr_access.is_okr_workspace
    \* get_okr_compliance.py, get_prodmgt_compliance.py
    cmp_pc,
    cmp_input,          \* the workspace or hierarchy node passed in
    cmp_user_id,        \* current_user_id, the viewer
    cmp_show_all,       \* show_all (--all)
    cmp_okr,            \* result of get_okr_compliance.format_workspace_access
    cmp_prodmgt,        \* result of get_prodmgt_compliance.format_workspace_access
    cmp_folder,         \* result of format_folder_access
    output,             \* the lines printed
    \* utils.py called as a library (script = "library")
    last_call,          \* the registry function called last, what it
                        \* returned and the requests it made
    \* the paginated workspace fetch (get_all_workspaces, get_user_workspaces)
    pg_pc,              \* "idle", "loop", "loaded", "done"
    pg_fn,              \* which of the two functions runs
    pg_collection,      \* the workspaces the server holds, in sort order
    pg_page_size,       \* most items the server puts in one response
    pg_offset,          \* offset
    pg_all,             \* all_workspaces
    pg_offsets,         \* the offsets requested so far
    pg_result,          \* what the function returned
    \* the error checks of the compliance tools on a node without children
    leaf_depth,         \* depth the formatters were called with
    leaf_errors,        \* results of has_errors_in_subtree and has_errors_in_node
    \* set_field_options.py
    fo_pc,              \* position in main()
    fo_reorder,         \* --reorder
    fo_field_options,   \* settings.options of the field on the server
    fo_input,           \* input_opts_list, the names read from --input
    fo_sent,            \* settings.options of the PUT request, once sent
    fo_exit,            \* process exit code, -1 while running
    \* get_license_usage.py
    lic_pc,             \* position in main()
    lic_user_registry,  \* _user_registry, user id to role
    lic_group_registry, \* _group_registry.values()
    lic_analysis,       \* the dictionary analyze_license_usage returns
    lic_printed         \* the counts display_license_summary prints

wh_vars == <<wh_pc, workspaces, api_relations, relations, children_map,
             parent_map, roots, node_map>>

fh_vars == <<fh_pc, fh_workspaces, api_folders, folders_basic,
             folders_with_embed, workspace_to_folder, folder_children,
             folder_parent, fh_roots, fh_warnings, fh_list_outcome,
             fh_search_outcome>>

sc_vars == <<script, sc_pc, args, api_users, api_groups, user_registry,
             group_registry, registries_loaded, member_ids, idx,
             changes_to_make, skip_count, success_count, error_count,
             requests, confirmed, exit_code, reported, api_workspace_names,
             api_folder, app_id, objective_ws_ids, target_workspaces>>

okr_vars == <<okr_pc, okr_workspace, okr_compliance, okr_access>>

cmp_vars == <<cmp_pc, cmp_input, cmp_user_id, cmp_show_all, cmp_okr,
              cmp_prodmgt, cmp_folder, output>>

lib_vars == <<last_call>>

pg_vars == <<pg_pc, pg_fn, pg_collection, pg_page_size, pg_offset, pg_all,
             pg_offsets, pg_result>>

leaf_vars == <<leaf_depth, leaf_errors>>

fo_vars == <<fo_pc, fo_reorder, fo_field_options, fo_input, fo_sent, fo_exit>>

lic_vars == <<lic_pc, lic_user_registry, lic_group_registry, lic_analysis, lic_printed>>

vars == <<wh_vars, fh_vars, sc_vars, okr_vars, cmp_vars, lib_vars,
         pg_vars,
         leaf_vars,
         fo_vars,
         lic_vars>>

\* what the actions of one component leave alone
wh_others == <<fh_vars, sc_vars, okr_vars, cmp_vars, lib_vars,
    pg_vars,
    leaf_vars,
    fo_vars,
    lic_vars>>
fh_others == <<wh_vars, sc_vars, okr_vars, cmp_vars, lib_vars,
    pg_vars,
    leaf_vars,
    fo_vars,
    lic_vars>>
sc_others == <<wh_vars, fh_vars, okr_vars, cmp_vars, lib_vars,
    pg_vars,
    leaf_vars,
    fo_vars,
    lic_vars>>
okr_others == <<wh_vars, fh_vars, sc_vars, cmp_vars, lib_vars,
    pg_vars,
    leaf_vars,
    fo_vars,
    lic_vars>>
cmp_others == <<wh_vars, fh_vars, sc_vars, okr_vars, lib_vars,
    pg_vars,
    leaf_vars,
    fo_vars,
    lic_vars>>
lib_others == <<wh_vars, fh_vars, okr_vars, cmp_vars,
    pg_vars,
    leaf_vars,
    fo_vars,
    lic_vars>>
pg_others == <<
    wh_vars, fh_vars, sc_vars, okr_vars, cmp_vars, lib_vars,
    leaf_vars,
    fo_vars,
    lic_vars>>
leaf_others == <<
    wh_vars, fh_vars, sc_vars, okr_vars, lib_vars, pg_vars,
    fo_vars,
    lic_vars>>
fo_others == <<
    wh_vars, fh_vars, sc_vars, okr_vars, cmp_vars, lib_vars, pg_vars,
    leaf_vars,
    lic_vars>>
lic_others == <<
    wh_vars, fh_vars, sc_vars, okr_vars, cmp_vars, lib_vars, pg_vars,
    leaf_vars, fo_vars>>

\* ------------------------------------------------------- generic helpers
EmptyMap == <<>>

\* dict[k] = v on a dict modelled as a function
Put(m, k, v) == IF k \in DOMAIN m THEN [m EXCEPT ![k] = v] ELSE m @@ (k :> v)

RECURSIVE SortedSeq(_)
SortedSeq(S) ==
    IF S = {} THEN <<>>
    ELSE LET m == CHOOSE x \in S : \A y \in S : x <= y
         IN <<m>> \o SortedSeq(S \ {m})

SeqsUpTo(S, n) == UNION {[1..k -> S] : k \in 0..n}

Range(s) == {s[i] : i \in 1..Len(s)}

\* ===================================================================
\*  build_workspace_hierarchy
\* ===================================================================
WsIds == 1..MaxWs

RelationIds == {NoId} \cup WsIds

Relation == [parentId : RelationIds, childId : RelationIds]

\* the loop over relations: children_map and parent_map
RECURSIVE build_maps(_, _, _, _)
build_maps(rels, i, cm, pm) ==
    IF i > Len(rels) THEN [children_map |-> cm, parent_map |-> pm]
    ELSE LET parent_id == rels[i].parentId
             child_id == rels[i].childId
         IN IF parent_id # NoId /\ child_id # NoId
            THEN build_maps(rels, i + 1,
                     IF parent_id \in DOMAIN cm
                     THEN [cm EXCEPT ![parent_id] = Append(@, child_id)]
                     ELSE cm @@ (parent_id :> <<child_id>>),
                     Put(pm, child_id, parent_id))
            ELSE build_maps(rels, i + 1, cm, pm)

\* mutant: roots are the workspaces that have no children
root_ids_no_children(ws, cm, pm) ==
    SelectSeq(ws, LAMBDA ws_id : ws_id \notin DOMAIN cm)

\* root workspaces: those without parents
root_ids(ws, cm, pm) ==
    SelectSeq(ws, LAMBDA ws_id : ws_id \notin DOMAIN pm)

RECURSIVE build_node(_, _, _, _)

build_node_siblings_share_visited(ws_id, visited, ws_map, cm) ==
    IF ws_id \in visited
    THEN [workspace |-> ws_id, children |-> <<>>]
    ELSE LET visited2 == visited \cup {ws_id}
             kids == IF ws_id \in DOMAIN cm
                     THEN SelectSeq(cm[ws_id], LAMBDA c : c \in ws_map)
                     ELSE <<>>
         IN [workspace |-> ws_id,
             children |-> [k \in 1..Len(kids) |->
                              build_node(kids[k],
                                  visited2 \cup {kids[j] : j \in 1..(k - 1)},
                                  ws_map, cm)]]

\* build_node(ws_id, visited), with the closure variables as parameters
build_node(ws_id, visited, ws_map, cm) ==
    IF ws_id \in visited
    THEN [workspace |-> ws_id, children |-> <<>>]
    ELSE LET visited2 == visited \cup {ws_id}
             kids == IF ws_id \in DOMAIN cm
                     THEN SelectSeq(cm[ws_id], LAMBDA c : c \in ws_map)
                     ELSE <<>>
         IN [workspace |-> ws_id,
             children |-> [k \in 1..Len(kids) |->
                              build_node(kids[k], visited2, ws_map, cm)]]

\* the loop over root_ids
build_roots(rids, ws_map, cm) ==
    [k \in 1..Len(SelectSeq(rids, LAMBDA r : r \in ws_map)) |->
        build_node(SelectSeq(rids, LAMBDA r : r \in ws_map)[k], {}, ws_map, cm)]

\* the forest build_workspace_hierarchy returns for a snapshot and a
\* relation list
forest_of(ws, rels) ==
    LET m == build_maps(rels, 1, EmptyMap, EmptyMap)
    IN build_roots(root_ids(ws, m.children_map, m.parent_map),
                   Range(ws), m.children_map)

wh_Init ==
    /\ wh_pc = "start"
    /\ \E S \in SUBSET WsIds : workspaces = SortedSeq(S)
    /\ api_relations \in SeqsUpTo(Relation, MaxRel)
    /\ relations = <<>>
    /\ children_map = EmptyMap
    /\ parent_map = EmptyMap
    /\ roots = <<>>
    /\ node_map = EmptyMap

\* make_api_request('/api/workspaces/workspace-relations/search'): the
\* request succeeds, or make_api_request prints the error and exits
wh_fetch_relations ==
    /\ wh_pc = "start"
    /\ \E outcome \in {"ok", "http_error"} :
        IF outcome = "ok"
        THEN /\ relations' = api_relations
             /\ wh_pc' = "maps"
        ELSE /\ relations' = relations
             /\ wh_pc' = "exit"
    /\ UNCHANGED <<workspaces, api_relations, children_map, parent_map,
                   roots, node_map>>
    /\ UNCHANGED wh_others

wh_build_maps ==
    /\ wh_pc = "maps"
    /\ LET m == build_maps(relations, 1, EmptyMap, EmptyMap)
       IN /\ children_map' = m.children_map
          /\ parent_map' = m.parent_map
    /\ wh_pc' = "roots"
    /\ UNCHANGED <<workspaces, api_relations, relations, roots, node_map>>
    /\ UNCHANGED wh_others

wh_build_roots ==
    /\ wh_pc = "roots"
    /\ roots' = build_roots(root_ids(workspaces, children_map, parent_map),
                            Range(workspaces), children_map)
    /\ node_map' = [r \in {roots'[k].workspace : k \in 1..Len(roots')} |->
                       roots'[CHOOSE k \in 1..Len(roots') :
                                  roots'[k].workspace = r]]
    /\ wh_pc' = "done"
    /\ UNCHANGED <<workspaces, api_relations, relations, children_map,
                   parent_map>>
    /\ UNCHANGED wh_others

\* the builder is not running
wh_Idle ==
    /\ wh_pc = "idle"
    /\ workspaces = <<>>
    /\ api_relations = <<>>
    /\ relations = <<>>
    /\ children_map = EmptyMap
    /\ parent_map = EmptyMap
    /\ roots = <<>>
    /\ node_map = EmptyMap

wh_Next == wh_fetch_relations \/ wh_build_maps \/ wh_build_roots

\* ---- the returned forest: occurrences of a workspace
RECURSIVE CountInNode(_, _), CountInSeq(_, _)
CountInNode(w, n) ==
    (IF n.workspace = w THEN 1 ELSE 0) + CountInSeq(w, n.children)
CountInSeq(w, s) ==
    IF s = <<>> THEN 0
    ELSE CountInNode(w, Head(s)) + CountInSeq(w, Tail(s))

\* ---- the relation list as a graph
ValidRel(r) == r.parentId # NoId /\ r.childId # NoId

RelEdges(rels) ==
    {<<rels[i].parentId, rels[i].childId>> :
        i \in {j \in 1..Len(rels) : ValidRel(rels[j])}}

Succ(S, E) == {e[2] : e \in {f \in E : f[1] \in S}}

RECURSIVE Descendants(_, _, _)
Descendants(S, E, n) ==
    IF n = 0 THEN S ELSE Descendants(S \cup Succ(S, E), E, n - 1)

HasCycle(rels) ==
    \E x \in WsIds :
        x \in Descendants(Succ({x}, RelEdges(rels)), RelEdges(rels), MaxWs)

Snapshot == Range(workspaces)

\* w is the child of some relation of the list
IsChild(w, rels) ==
    \E i \in 1..Len(rels) : ValidRel(rels[i]) /\ rels[i].childId = w

IsRoot(w) == \E k \in 1..Len(roots) : roots[k].workspace = w

\* parent -> child pairs of the returned forest
RECURSIVE EdgesInNode(_), EdgesInSeq(_)
EdgesInNode(n) ==
    {<<n.workspace, n.children[k].workspace>> : k \in 1..Len(n.children)}
        \cup EdgesInSeq(n.children)
EdgesInSeq(s) ==
    IF s = <<>> THEN {} ELSE EdgesInNode(Head(s)) \cup EdgesInSeq(Tail(s))

\* workspaces of all nodes of a forest
RECURSIVE NodesInSeq(_)
NodesInSeq(s) ==
    IF s = <<>> THEN {}
    ELSE {Head(s).workspace} \cup NodesInSeq(Head(s).children)
             \cup NodesInSeq(Tail(s))

\* number of childless nodes for w in a forest
RECURSIVE LeafCount(_, _)
LeafCount(w, s) ==
    IF s = <<>> THEN 0
    ELSE (IF Head(s).workspace = w /\ Head(s).children = <<>> THEN 1 ELSE 0)
             + LeafCount(w, Head(s).children) + LeafCount(w, Tail(s))

\* occurrences in the forest of the parents of the relations naming w as
\* child, one term per relation
RECURSIVE ParentOccurrences(_, _, _)
ParentOccurrences(w, rels, i) ==
    IF i > Len(rels) THEN 0
    ELSE (IF ValidRel(rels[i]) /\ rels[i].childId = w
          THEN CountInSeq(rels[i].parentId, roots) ELSE 0)
             + ParentOccurrences(w, rels, i + 1)

RemoveAt(s, i) == SubSeq(s, 1, i - 1) \o SubSeq(s, i + 1, Len(s))

C3_SelfReferenceIsLeaf ==
    wh_pc = "done" =>
        \A w \in Snapshot :
            (\E i \in 1..Len(relations) :
                 relations[i].parentId = w /\ relations[i].childId = w)
                => LeafCount(w, roots) >= 1

\* the children a workspace has by the relations, in relation order,
\* as far as they are in the snapshot
RelationChildren(w) ==
    LET rel == SelectSeq(relations,
                   LAMBDA r : /\ r.parentId = w
                              /\ r.parentId # NoId /\ r.childId # NoId
                              /\ r.childId \in Snapshot)
    IN [k \in 1..Len(rel) |-> rel[k].childId]

\* a node is expanded along its own path: it repeats an ancestor and is
\* a leaf, or it has a node for each of its relation children, each
\* expanded along its path
RECURSIVE ExpandedPerPath(_, _)
ExpandedPerPath(node, ancestors) ==
    IF node.workspace \in ancestors THEN node.children = <<>>
    ELSE /\ Len(node.children) = Len(RelationChildren(node.workspace))
         /\ \A k \in 1..Len(node.children) :
                /\ node.children[k].workspace =
                       RelationChildren(node.workspace)[k]
                /\ ExpandedPerPath(node.children[k],
                                   ancestors \cup {node.workspace})

\* the nodes of a forest that have a child node for w
RECURSIVE ParentsOf(_, _)
ParentsOf(w, nodes) ==
    UNION {(IF \E j \in 1..Len(nodes[k].children) :
                  nodes[k].children[j].workspace = w
            THEN {nodes[k].workspace} ELSE {})
           \cup ParentsOf(w, nodes[k].children) : k \in 1..Len(nodes)}

\* the ids of the nodes of a forest
RECURSIVE ForestIds(_)
ForestIds(nodes) ==
    UNION {{nodes[k].workspace} \cup ForestIds(nodes[k].children) :
               k \in 1..Len(nodes)}

\* C22: a workspace that is the child of two different parents, both in
\* the forest, has a node under each of them, and every node of the
\* forest carries the full expansion of its workspace along its own
\* path: only a repetition of one of its own ancestors ends it, never
\* what was visited in another branch
C22_ExpandedOncePerPath ==
    wh_pc = "done" =>
        /\ \A k \in 1..Len(roots) : ExpandedPerPath(roots[k], {})
        /\ \A w \in Snapshot :
               \A p \in ForestIds(roots) :
                   (\E k \in 1..Len(RelationChildren(p)) :
                        RelationChildren(p)[k] = w)
                       => p \in ParentsOf(w, roots)

\* workspace 3 is the child of the roots 1 and 2 and has a child of its
\* own (itself): both roots carry the same expanded node for 3
C22_Witness ==
    /\ wh_pc = "done"
    /\ Len(roots) = 2
    /\ roots[1].workspace = 1 /\ roots[2].workspace = 2
    /\ roots[1].children = roots[2].children
    /\ Len(roots[1].children) = 1
    /\ roots[1].children[1].workspace = 3
    /\ Len(roots[1].children[1].children) = 1

\* C4 (as claimed): a relation naming a workspace outside the snapshot is
\* ignored: the forest equals the one built without that relation, and
\* every node is a snapshot workspace.
C4_AbsentRelationIgnored ==
    wh_pc = "done" =>
        /\ NodesInSeq(roots) \subseteq Snapshot
        /\ \A i \in 1..Len(relations) :
              (\/ relations[i].parentId \notin Snapshot \cup {NoId}
               \/ relations[i].childId \notin Snapshot \cup {NoId})
                  => roots = forest_of(workspaces, RemoveAt(relations, i))

\* ===================================================================
\*  build_folder_hierarchy
\* ===================================================================
FolderIds == 1..MaxFolders

FhWsIds == 1..MaxFhWs

\* a folder as the server holds it: its parent, whether its details are
\* accessible (the list endpoint returns null otherwise) and the embedded
\* workspace list of its details
ApiFolder ==
    [parentId : {NoId} \cup FolderIds, accessible : {TRUE},
     workspaces : {SortedSeq(S) : S \in SUBSET FhWsIds}]
    \cup [parentId : {NoId} \cup FolderIds, accessible : {FALSE},
          workspaces : {<<>>}]

\* ordered dict as a sequence of <<key, value>> pairs: d[k] = v
RECURSIVE DictSet(_, _, _)
DictSet(d, k, v) ==
    IF d = <<>> THEN <<<<k, v>>>>
    ELSE IF Head(d)[1] = k THEN <<<<k, v>>>> \o Tail(d)
    ELSE <<Head(d)>> \o DictSet(Tail(d), k, v)

DictKeys(d) == {d[i][1] : i \in 1..Len(d)}

\* items of the search response: id and parentId of every folder
search_items(af) == [i \in 1..Len(af) |-> [id |-> i, parentId |-> af[i].parentId]]

\* the loop over list_response: null folders are skipped
RECURSIVE embed_folders(_, _, _)
embed_folders(af, i, fwe) ==
    IF i > Len(af) THEN fwe
    ELSE embed_folders(af, i + 1,
             IF af[i].accessible
             THEN DictSet(fwe, i, [id |-> i, workspaces |-> af[i].workspaces])
             ELSE fwe)

\* workspace_to_folder: the nested loop over folders and their embedded
\* workspaces
RECURSIVE map_workspaces(_, _, _, _)
map_workspaces(fwe, i, j, wtf) ==
    IF i > Len(fwe) THEN wtf
    ELSE IF j > Len(fwe[i][2].workspaces)
         THEN map_workspaces(fwe, i + 1, 1, wtf)
         ELSE map_workspaces(fwe, i, j + 1,
                  DictSet(wtf, fwe[i][2].workspaces[j], fwe[i][1]))

\* folder_children and folder_parent: the loop over folders_basic
RECURSIVE build_folder_maps(_, _, _, _)
build_folder_maps(fb, i, fc, fp) ==
    IF i > Len(fb) THEN [folder_children |-> fc, folder_parent |-> fp]
    ELSE LET parent_id == fb[i].parentId
             folder_id == fb[i].id
         IN IF parent_id # NoId
            THEN build_folder_maps(fb, i + 1,
                     IF parent_id \in DOMAIN fc
                     THEN [fc EXCEPT ![parent_id] = Append(@, folder_id)]
                     ELSE fc @@ (parent_id :> <<folder_id>>),
                     Put(fp, folder_id, parent_id))
            ELSE build_folder_maps(fb, i + 1, fc, fp)

root_folder_ids(fwe, fp) ==
    SelectSeq([i \in 1..Len(fwe) |-> fwe[i][1]],
              LAMBDA f_id : f_id \notin DOMAIN fp)

orphaned_workspace_ids(ws, wtf) ==
    SelectSeq(ws, LAMBDA ws_id : ws_id \notin DictKeys(wtf))

WorkspaceLeaf(ws_id) ==
    [is_folder |-> FALSE, workspace |-> ws_id, children |-> <<>>]

\* the workspaces of one folder node: the loop over workspace_to_folder
folder_workspaces(folder_id, wtf, ws_map) ==
    LET mine == SelectSeq(wtf, LAMBDA e : e[2] = folder_id /\ e[1] \in ws_map)
    IN [k \in 1..Len(mine) |-> WorkspaceLeaf(mine[k][1])]

\* build_folder_node(folder_id, visited); folder_map[folder_id] raises
\* KeyError for a folder without details: the result is [ok |-> FALSE]
RECURSIVE build_folder_node(_, _, _, _, _, _)
build_folder_node(folder_id, visited, fwe, wtf, fc, ws_map) ==
    IF folder_id \in visited
    THEN IF folder_id \in DictKeys(fwe)
         THEN [ok |-> TRUE,
               node |-> [is_folder |-> TRUE, folder_data |-> folder_id,
                         children |-> <<>>, workspaces |-> <<>>]]
         ELSE [ok |-> FALSE, node |-> <<>>]
    ELSE IF folder_id \notin DictKeys(fwe)
         THEN [ok |-> FALSE, node |-> <<>>]
         ELSE LET visited2 == visited \cup {folder_id}
                  kids == IF folder_id \in DOMAIN fc THEN fc[folder_id]
                          ELSE <<>>
                  sub == [k \in 1..Len(kids) |->
                             build_folder_node(kids[k], visited2, fwe, wtf,
                                               fc, ws_map)]
              IN IF \E k \in 1..Len(kids) : ~sub[k].ok
                 THEN [ok |-> FALSE, node |-> <<>>]
                 ELSE [ok |-> TRUE,
                       node |-> [is_folder |-> TRUE,
                                 folder_data |-> folder_id,
                                 children |-> [k \in 1..Len(kids) |->
                                                  sub[k].node],
                                 workspaces |->
                                     folder_workspaces(folder_id, wtf,
                                                       ws_map)]]

fh_Init ==
    /\ fh_pc = "start"
    /\ \E S \in SUBSET FhWsIds : fh_workspaces = SortedSeq(S)
    /\ api_folders \in SeqsUpTo(ApiFolder, MaxFolders)
    /\ folders_basic = <<>>
    /\ folders_with_embed = <<>>
    /\ workspace_to_folder = <<>>
    /\ folder_children = EmptyMap
    /\ folder_parent = EmptyMap
    /\ fh_roots = <<>>
    /\ fh_warnings = 0
    /\ fh_list_outcome = "none"
    /\ fh_search_outcome = "none"

\* the builder is not running
fh_Idle ==
    /\ fh_pc = "idle"
    /\ fh_workspaces = <<>>
    /\ api_folders = <<>>
    /\ folders_basic = <<>>
    /\ folders_with_embed = <<>>
    /\ workspace_to_folder = <<>>
    /\ folder_children = EmptyMap
    /\ folder_parent = EmptyMap
    /\ fh_roots = <<>>
    /\ fh_warnings = 0
    /\ fh_list_outcome = "none"
    /\ fh_search_outcome = "none"

\* How a request made inside "try: ... except Exception" can end:
\*   "ok"           the response is used;
\*   "http_error"   requests raises RequestException: make_api_request
\*                  prints it and calls sys.exit(1); SystemExit is not an
\*                  Exception, so the except clause does not catch it;
\*   "bad_response" the response has another shape than expected and the
\*                  code of the try block raises an Exception, which the
\*                  except clause catches.
ApiOutcome == {"ok", "http_error", "bad_response"}

\* POST /api/workspaces/groups/search
fh_search ==
    /\ fh_pc = "start"
    /\ \E outcome \in ApiOutcome :
        /\ fh_search_outcome' = outcome
        /\ CASE outcome = "ok" ->
                  /\ folders_basic' = search_items(api_folders)
                  /\ fh_warnings' = fh_warnings
                  /\ fh_pc' = "list"
             [] outcome = "http_error" ->
                  /\ folders_basic' = folders_basic
                  /\ fh_warnings' = fh_warnings
                  /\ fh_pc' = "exit"
             [] outcome = "bad_response" ->
                  /\ folders_basic' = <<>>
                  /\ fh_warnings' = fh_warnings + 1
                  /\ fh_pc' = "list"
    /\ UNCHANGED <<fh_workspaces, api_folders, folders_with_embed,
                   workspace_to_folder, folder_children, folder_parent,
                   fh_roots, fh_list_outcome>>
    /\ UNCHANGED fh_others

\* POST /api/workspaces/groups/list, only when there are folder ids
fh_list ==
    /\ fh_pc = "list"
    /\ IF folders_basic = <<>>
       THEN /\ fh_list_outcome' = "skipped"
            /\ folders_with_embed' = <<>>
            /\ fh_warnings' = fh_warnings
            /\ fh_pc' = "maps"
       ELSE \E outcome \in ApiOutcome :
            /\ fh_list_outcome' = outcome
            /\ CASE outcome = "ok" ->
                      /\ folders_with_embed' =
                             embed_folders(api_folders, 1, <<>>)
                      /\ fh_warnings' = fh_warnings
                      /\ fh_pc' = "maps"
                 [] outcome = "http_error" ->
                      /\ folders_with_embed' = folders_with_embed
                      /\ fh_warnings' = fh_warnings
                      /\ fh_pc' = "exit"
                 [] outcome = "bad_response" ->
                      /\ folders_with_embed' = <<>>
                      /\ fh_warnings' = fh_warnings + 1
                      /\ fh_pc' = "maps"
    /\ UNCHANGED <<fh_workspaces, api_folders, folders_basic,
                   workspace_to_folder, folder_children, folder_parent,
                   fh_roots, fh_search_outcome>>
    /\ UNCHANGED fh_others

\* "Create mappings" up to the orphaned workspace ids
fh_build_maps ==
    /\ fh_pc = "maps"
    /\ workspace_to_folder' = map_workspaces(folders_with_embed, 1, 1, <<>>)
    /\ LET m == build_folder_maps(folders_basic, 1, EmptyMap, EmptyMap)
       IN /\ folder_children' = m.folder_children
          /\ folder_parent' = m.folder_parent
    /\ fh_pc' = "build"
    /\ UNCHANGED <<fh_workspaces, api_folders, folders_basic,
                   folders_with_embed, fh_roots, fh_warnings,
                   fh_list_outcome, fh_search_outcome>>
    /\ UNCHANGED fh_others

\* the loops over root_folder_ids and orphaned_workspace_ids; an uncaught
\* KeyError ends the run
fh_build_roots ==
    /\ fh_pc = "build"
    /\ LET rids == root_folder_ids(folders_with_embed, folder_parent)
           built == [k \in 1..Len(rids) |->
                        build_folder_node(rids[k], {}, folders_with_embed,
                                          workspace_to_folder,
                                          folder_children,
                                          Range(fh_workspaces))]
           orphans == orphaned_workspace_ids(fh_workspaces,
                                             workspace_to_folder)
       IN IF \E k \in 1..Len(rids) : ~built[k].ok
          THEN /\ fh_roots' = fh_roots
               /\ fh_pc' = "raised"
          ELSE /\ fh_roots' = [k \in 1..Len(rids) |-> built[k].node]
                     \o [k \in 1..Len(orphans) |-> WorkspaceLeaf(orphans[k])]
               /\ fh_pc' = "done"
    /\ UNCHANGED <<fh_workspaces, api_folders, folders_basic,
                   folders_with_embed, workspace_to_folder, folder_children,
                   folder_parent, fh_warnings, fh_list_outcome,
                   fh_search_outcome>>
    /\ UNCHANGED fh_others

fh_Next == fh_search \/ fh_list \/ fh_build_maps \/ fh_build_roots

\* ===================================================================
\*  text: str.startswith, str.endswith, str.lower, "in"
\* ===================================================================
UpperLetters ==
    <<"A", "B", "C", "D", "E", "F", "G", "H", "I", "J", "K", "L", "M", "N",
      "O", "P", "Q", "R", "S", "T", "U", "V", "W", "X", "Y", "Z">>

LowerLetters ==
    <<"a", "b", "c", "d", "e", "f", "g", "h", "i", "j", "k", "l", "m", "n",
      "o", "p", "q", "r", "s", "t", "u", "v", "w", "x", "y", "z">>

LowerChar(c) ==
    IF \E i \in 1..Len(UpperLetters) : UpperLetters[i] = c
    THEN LowerLetters[CHOOSE i \in 1..Len(UpperLetters) : UpperLetters[i] = c]
    ELSE c

Lower(s) == [i \in 1..Len(s) |-> LowerChar(s[i])]

StartsWith(s, p) == Len(s) >= Len(p) /\ SubSeq(s, 1, Len(p)) = p

EndsWith(s, p) ==
    Len(s) >= Len(p) /\ SubSeq(s, Len(s) - Len(p) + 1, Len(s)) = p

\* sub in s
Contains(s, sub) ==
    \E i \in 1..(Len(s) - Len(sub) + 1) : SubSeq(s, i, i + Len(sub) - 1) = sub

\* ===================================================================
\*  registries and the scripts that change roles or install extensions
\* ===================================================================
UserIds == 1..MaxUsers

UnknownUser == MaxUsers + 1     \* a member id that is not in the registry

Roles == {"admin", "editor", "contributor", ""}

SP_OKR_ == <<"S", "P", "_", "O", "K", "R", "_">>

SP_ProdMgt_ == <<"S", "P", "_", "P", "r", "o", "d", "M", "g", "t", "_">>

Suffix_C_U == <<"_", "C", "_", "U">>

\* names of the groups the server may hold
GroupNames ==
    {SP_OKR_ \o <<"A", "_", "F">>,
     SP_ProdMgt_ \o <<"B">> \o Suffix_C_U,
     <<"T", "e", "a", "m">>}

\* a name no group has
UnknownGroupName == <<"N", "o", "p", "e">>

NoName == <<>>      \* an argument that was not given (None)

NoGroup == [id |-> NoId, name |-> NoName, userIds |-> <<>>]

get_user_role(ur, user_id) ==
    IF user_id \in DOMAIN ur THEN ur[user_id].role ELSE ""

get_group_members(gr, group_id) ==
    IF \E i \in 1..Len(gr) : gr[i].id = group_id
    THEN gr[CHOOSE i \in 1..Len(gr) : gr[i].id = group_id].userIds
    ELSE <<>>

\* the first group with that name, or None
get_group_by_name(gr, group_name) ==
    IF \E i \in 1..Len(gr) : gr[i].name = group_name
    THEN gr[CHOOSE i \in 1..Len(gr) :
                /\ gr[i].name = group_name
                /\ \A j \in 1..(i - 1) : gr[j].name # group_name]
    ELSE NoGroup

get_users_not_in_specific_groups(gr, ur, prefixes, exclude_suffix, role) ==
    LET matching == {i \in 1..Len(gr) :
                        /\ \E p \in prefixes : StartsWith(gr[i].name, p)
                        /\ ~(exclude_suffix # NoName
                             /\ EndsWith(gr[i].name, exclude_suffix))}
        users_in_matching_groups ==
            UNION {Range(gr[i].userIds) : i \in matching}
    IN {user_id \in DOMAIN ur :
           /\ user_id \notin users_in_matching_groups
           /\ (role = "" \/ ur[user_id].role = role)}

\* set_role.py, first pass, mutant: everyone without the target role is
\* changed
sr_should_change_unprotected(current_role, target_role, source_role) ==
    current_role # target_role

\* set_role.py, first pass: does this member get the target role
sr_should_change(current_role, target_role, source_role) ==
    /\ current_role # target_role
    /\ current_role # "admin"
    /\ current_role = source_role

\* set_editor_role.py: does this member become editor
se_should_change(current_role) ==
    /\ current_role # "editor"
    /\ current_role # "admin"
    /\ current_role = "contributor"

source_role_of(target_role) ==
    IF target_role = "editor" THEN "contributor" ELSE "editor"

valid_roles == {"admin", "editor", "contributor"}

role_request(user_id, role) ==
    [kind |-> "role", target |-> user_id, role |-> role,
     current_role |-> get_user_role(user_registry, user_id)]

install_request(ws_id) ==
    [kind |-> "install", target |-> ws_id, role |-> "", current_role |-> ""]

\* sys.exit(code)
ExitWith(code) == sc_pc' = "exited" /\ exit_code' = code

\* set_user_role(user_id, role): the request and the registry update;
\* result is "True", "False" or "exit" (make_api_request called sys.exit)
set_user_role(user_id, role, outcome, result) ==
    IF role \notin valid_roles
    THEN /\ result = "False"
         /\ UNCHANGED <<requests, user_registry>>
    ELSE /\ requests' = Append(requests, role_request(user_id, role))
         /\ CASE outcome = "ok" ->
                   /\ result = "True"
                   /\ user_registry' =
                          IF user_id \in DOMAIN user_registry
                          THEN [user_registry EXCEPT ![user_id].role = role]
                          ELSE user_registry
              [] outcome = "http_error" ->
                   /\ result = "exit"
                   /\ UNCHANGED user_registry
              [] outcome = "bad_response" ->
                   /\ result = "False"
                   /\ UNCHANGED user_registry

ApiGroup ==
    [name : GroupNames, userIds : SeqsUpTo(1..UnknownUser, MaxMembers)]

RoleArgs ==
    [group_name : GroupNames \cup {UnknownGroupName, NoName},
     role : {"editor", "contributor"}, orphaned : BOOLEAN,
     dry_run : {FALSE}]

EditorArgs ==
    [group_name : GroupNames \cup {UnknownGroupName},
     role : {"editor"}, orphaned : {FALSE}, dry_run : BOOLEAN]

\* --objective-workspaces: identifiers that look like a UUID or are names
WsNames == {"CMS", "Ghost"}

Identifier == [shape : {"uuid"}, ref : {"u-1"}] \cup [shape : {"name"}, ref : WsNames]

ExtArgs ==
    [extension_type : {<<"o", "k", "r">>, <<"O", "K", "R">>,
                       <<"f", "o", "r", "m", "s">>},
     app_id : {NoId, 1},
     objective_workspaces : SeqsUpTo(Identifier, MaxObjectives),
     folder : {"folder"}]

sc_common_Init ==
    /\ user_registry = EmptyMap
    /\ group_registry = <<>>
    /\ registries_loaded = FALSE
    /\ member_ids = <<>>
    /\ idx = 1
    /\ changes_to_make = <<>>
    /\ skip_count = 0
    /\ success_count = 0
    /\ error_count = 0
    /\ requests = <<>>
    /\ confirmed = "none"
    /\ exit_code = -1
    /\ reported = {}
    /\ app_id = NoId
    /\ objective_ws_ids = <<>>
    /\ target_workspaces = <<>>

sc_Init ==
    /\ sc_common_Init
    /\ \/ /\ script = "set_role"
          /\ sc_pc = "args"
          /\ args \in RoleArgs
          /\ \E r \in [UserIds -> Roles] :
                api_users = [i \in UserIds |-> [userId |-> i, role |-> r[i]]]
          /\ \E g \in SeqsUpTo(ApiGroup, MaxGroups) :
                api_groups = [i \in 1..Len(g) |->
                                 [id |-> i, name |-> g[i].name,
                                  userIds |-> g[i].userIds]]
          /\ api_workspace_names = EmptyMap
          /\ api_folder = [exists |-> FALSE, workspaces |-> <<>>]
       \/ /\ script = "set_editor_role"
          /\ sc_pc = "load"
          /\ args \in EditorArgs
          /\ \E r \in [UserIds -> Roles] :
                api_users = [i \in UserIds |-> [userId |-> i, role |-> r[i]]]
          /\ \E g \in SeqsUpTo(ApiGroup, MaxGroups) :
                api_groups = [i \in 1..Len(g) |->
                                 [id |-> i, name |-> g[i].name,
                                  userIds |-> g[i].userIds]]
          /\ api_workspace_names = EmptyMap
          /\ api_folder = [exists |-> FALSE, workspaces |-> <<>>]
       \/ /\ script = "set_workspace_extension"
          /\ sc_pc = "args"
          /\ args \in ExtArgs
          /\ api_users = <<>>
          /\ api_groups = <<>>
          /\ \E D \in SUBSET WsNames :
                api_workspace_names = [n \in D |-> IF n = "CMS" THEN 1 ELSE 2]
          /\ \/ api_folder = [exists |-> FALSE, workspaces |-> <<>>]
             \/ \E n \in 0..MaxTargets :
                   api_folder = [exists |-> TRUE,
                                 workspaces |-> [i \in 1..n |-> i]]

\* no script is running
sc_Idle ==
    /\ sc_common_Init
    /\ script = "idle"
    /\ sc_pc = "idle"
    /\ args = <<>>
    /\ api_users = <<>>
    /\ api_groups = <<>>
    /\ api_workspace_names = EmptyMap
    /\ api_folder = [exists |-> FALSE, workspaces |-> <<>>]

sc_data == <<script, args, api_users, api_groups, api_workspace_names,
             api_folder>>

\* ---- set_role.py
sr_validate_args ==
    /\ script = "set_role" /\ sc_pc = "args"
    /\ IF \/ args.orphaned /\ args.group_name # NoName
          \/ ~args.orphaned /\ args.group_name = NoName
       THEN ExitWith(1)
       ELSE sc_pc' = "load" /\ exit_code' = exit_code
    /\ UNCHANGED <<sc_data, user_registry, group_registry,
                   registries_loaded, member_ids, idx, changes_to_make,
                   skip_count, success_count, error_count, requests,
                   confirmed, reported, app_id, objective_ws_ids,
                   target_workspaces>>
    /\ UNCHANGED sc_others

\* load_registries(): GET /api/team/users, POST /user-groups/search; a
\* failed request ends the process in make_api_request
load_registries ==
    /\ script \in {"set_role", "set_editor_role", "set_workspace_extension"}
    /\ sc_pc = "load"
    /\ \E outcome \in {"ok", "http_error"} :
        IF registries_loaded
        THEN /\ UNCHANGED <<user_registry, group_registry,
                            registries_loaded, exit_code>>
             /\ sc_pc' = "loaded"
        ELSE IF outcome = "ok"
        THEN /\ user_registry' =
                    [u \in {api_users[i].userId : i \in 1..Len(api_users)} |->
                        api_users[CHOOSE i \in 1..Len(api_users) :
                                      api_users[i].userId = u]]
             /\ group_registry' = api_groups
             /\ registries_loaded' = TRUE
             /\ sc_pc' = "loaded"
             /\ exit_code' = exit_code
        ELSE /\ UNCHANGED <<user_registry, group_registry,
                            registries_loaded>>
             /\ ExitWith(1)
    /\ UNCHANGED <<sc_data, member_ids, idx, changes_to_make, skip_count,
                   success_count, error_count, requests, confirmed,
                   reported, app_id, objective_ws_ids, target_workspaces>>
    /\ UNCHANGED sc_others

\* get_orphaned_users(): editors outside the SP_OKR_/SP_ProdMgt_ groups
\* with no workspace and no folder access; has_access is what
\* build_user_access_mappings finds
sr_orphaned_members ==
    /\ script = "set_role" /\ sc_pc = "loaded" /\ args.orphaned
    /\ \E has_access \in SUBSET UserIds, outcome \in {"ok", "http_error"} :
        LET editors_not_in_groups ==
                get_users_not_in_specific_groups(group_registry,
                    user_registry, {SP_OKR_, SP_ProdMgt_}, Suffix_C_U,
                    "editor")
            orphaned_data ==
                IF editors_not_in_groups = {} THEN {}
                ELSE editors_not_in_groups \ has_access
        IN IF editors_not_in_groups # {} /\ outcome = "http_error"
           THEN /\ ExitWith(1)
                /\ UNCHANGED <<member_ids, reported>>
           ELSE IF orphaned_data = {}
           THEN /\ ExitWith(0)
                /\ reported' = reported \cup {"no_orphaned_users"}
                /\ UNCHANGED member_ids
           ELSE /\ member_ids' = SortedSeq(orphaned_data)
                /\ sc_pc' = "plan"
                /\ UNCHANGED <<exit_code, reported>>
    /\ UNCHANGED <<sc_data, user_registry, group_registry,
                   registries_loaded, idx, changes_to_make, skip_count,
                   success_count, error_count, requests, confirmed, app_id,
                   objective_ws_ids, target_workspaces>>
    /\ UNCHANGED sc_others

\* "Find the group by name" of set_role.py and set_editor_role.py
find_group(next_pc) ==
    LET group == get_group_by_name(group_registry, args.group_name)
        members == get_group_members(group_registry, group.id)
    IN IF group = NoGroup
       THEN /\ reported' = reported \cup {"group_not_found"}
            /\ ExitWith(1)
            /\ UNCHANGED member_ids
       ELSE IF members = <<>>
       THEN /\ reported' = reported \cup {"no_members"}
            /\ ExitWith(0)
            /\ UNCHANGED member_ids
       ELSE /\ member_ids' = members
            /\ sc_pc' = next_pc
            /\ UNCHANGED <<exit_code, reported>>

sr_group_members ==
    /\ script = "set_role" /\ sc_pc = "loaded" /\ ~args.orphaned
    /\ find_group("plan")
    /\ UNCHANGED <<sc_data, user_registry, group_registry,
                   registries_loaded, idx, changes_to_make, skip_count,
                   success_count, error_count, requests, confirmed, app_id,
                   objective_ws_ids, target_workspaces>>
    /\ UNCHANGED sc_others

\* first pass: changes_to_make and skipped_users; no changes, exit 0
sr_first_pass ==
    /\ script = "set_role" /\ sc_pc = "plan"
    /\ LET target_role == args.role
           planned == SelectSeq(member_ids, LAMBDA user_id :
                          sr_should_change(
                              get_user_role(user_registry, user_id),
                              target_role, source_role_of(target_role)))
       IN /\ changes_to_make' =
                 [k \in 1..Len(planned) |->
                     [user_id |-> planned[k],
                      current_role |->
                          get_user_role(user_registry, planned[k])]]
          /\ skip_count' = Len(member_ids) - Len(planned)
          /\ IF planned = <<>>
             THEN ExitWith(0)
             ELSE sc_pc' = "confirm" /\ exit_code' = exit_code
    /\ UNCHANGED <<sc_data, user_registry, group_registry,
                   registries_loaded, member_ids, idx, success_count,
                   error_count, requests, confirmed, reported, app_id,
                   objective_ws_ids, target_workspaces>>
    /\ UNCHANGED sc_others

\* input("Do you want to proceed with these changes? (y/n): ")
sr_confirm ==
    /\ script = "set_role" /\ sc_pc = "confirm"
    /\ \E response \in {"y", "n", "eof"} :
        /\ confirmed' = response
        /\ IF response = "y"
           THEN sc_pc' = "apply" /\ exit_code' = exit_code
           ELSE ExitWith(1)
    /\ idx' = 1
    /\ UNCHANGED <<sc_data, user_registry, group_registry,
                   registries_loaded, member_ids, changes_to_make,
                   skip_count, success_count, error_count, requests,
                   reported, app_id, objective_ws_ids, target_workspaces>>
    /\ UNCHANGED sc_others

\* second pass, one iteration
sr_apply ==
    /\ script = "set_role" /\ sc_pc = "apply"
    /\ idx <= Len(changes_to_make)
    /\ \E outcome \in ApiOutcome, success \in {"True", "False", "exit"} :
        /\ set_user_role(changes_to_make[idx].user_id, args.role, outcome,
                         success)
        /\ CASE success = "True" ->
                  /\ success_count' = success_count + 1
                  /\ UNCHANGED <<error_count, sc_pc, exit_code>>
             [] success = "False" ->
                  /\ error_count' = error_count + 1
                  /\ UNCHANGED <<success_count, sc_pc, exit_code>>
             [] success = "exit" ->
                  /\ ExitWith(1)
                  /\ UNCHANGED <<success_count, error_count>>
    /\ idx' = idx + 1
    /\ UNCHANGED <<sc_data, group_registry, registries_loaded, member_ids,
                   changes_to_make, skip_count, confirmed, reported, app_id,
                   objective_ws_ids, target_workspaces>>
    /\ UNCHANGED sc_others

\* final summary and exit code
summary(pc, n) ==
    /\ sc_pc = pc
    /\ idx > n
    /\ ExitWith(IF error_count > 0 THEN 1 ELSE 0)
    /\ UNCHANGED <<sc_data, user_registry, group_registry,
                   registries_loaded, member_ids, idx, changes_to_make,
                   skip_count, success_count, error_count, requests,
                   confirmed, reported, app_id, objective_ws_ids,
                   target_workspaces>>
    /\ UNCHANGED sc_others

sr_summary == script = "set_role" /\ summary("apply", Len(changes_to_make))

\* ---- set_editor_role.py
se_find_group ==
    /\ script = "set_editor_role" /\ sc_pc = "loaded"
    /\ find_group("process")
    /\ UNCHANGED <<sc_data, user_registry, group_registry,
                   registries_loaded, idx, changes_to_make, skip_count,
                   success_count, error_count, requests, confirmed, app_id,
                   objective_ws_ids, target_workspaces>>
    /\ UNCHANGED sc_others

\* "Process each member", one iteration
se_process ==
    /\ script = "set_editor_role" /\ sc_pc = "process"
    /\ idx <= Len(member_ids)
    /\ LET user_id == member_ids[idx]
           current_role == get_user_role(user_registry, user_id)
       IN IF ~se_should_change(current_role)
          THEN /\ skip_count' = skip_count + 1
               /\ UNCHANGED <<success_count, error_count, requests,
                              user_registry, sc_pc, exit_code>>
          ELSE IF args.dry_run
          THEN /\ success_count' = success_count + 1
               /\ UNCHANGED <<skip_count, error_count, requests,
                              user_registry, sc_pc, exit_code>>
          ELSE \E outcome \in ApiOutcome,
                  success \in {"True", "False", "exit"} :
               /\ set_user_role(user_id, "editor", outcome, success)
               /\ skip_count' = skip_count
               /\ CASE success = "True" ->
                         /\ success_count' = success_count + 1
                         /\ UNCHANGED <<error_count, sc_pc, exit_code>>
                    [] success = "False" ->
                         /\ error_count' = error_count + 1
                         /\ UNCHANGED <<success_count, sc_pc, exit_code>>
                    [] success = "exit" ->
                         /\ ExitWith(1)
                         /\ UNCHANGED <<success_count, error_count>>
    /\ idx' = idx + 1
    /\ UNCHANGED <<sc_data, group_registry, registries_loaded, member_ids,
                   changes_to_make, confirmed, reported, app_id,
                   objective_ws_ids, target_workspaces>>
    /\ UNCHANGED sc_others

se_summary == script = "set_editor_role" /\ summary("process", Len(member_ids))

\* ---- set_workspace_extension.py
OKR_TYPE == <<"o", "k", "r">>

\* get_workspace_id_from_name(identifier, exact_match=True): the id, or ""
get_workspace_id_from_name(names, identifier) ==
    IF identifier \in DOMAIN names THEN names[identifier] ELSE NoId

\* the loop over raw_ids: UUIDs are taken as they are, names are resolved,
\* names that do not resolve are skipped with a warning
RECURSIVE resolve_objectives(_, _, _, _)
resolve_objectives(raw_ids, i, names, acc) ==
    IF i > Len(raw_ids) THEN acc
    ELSE IF raw_ids[i].shape = "uuid"
         THEN resolve_objectives(raw_ids, i + 1, names,
                                 Append(acc, raw_ids[i].ref))
         ELSE LET ws_id == get_workspace_id_from_name(names, raw_ids[i].ref)
              IN resolve_objectives(raw_ids, i + 1, names,
                     IF ws_id # NoId THEN Append(acc, ws_id) ELSE acc)

\* OKR extension requires --objective-workspaces
ext_validate_args ==
    /\ script = "set_workspace_extension" /\ sc_pc = "args"
    /\ IF Lower(args.extension_type) = OKR_TYPE
          /\ args.objective_workspaces = <<>>
       THEN ExitWith(1)
       ELSE sc_pc' = "load" /\ exit_code' = exit_code
    /\ UNCHANGED <<sc_data, user_registry, group_registry,
                   registries_loaded, member_ids, idx, changes_to_make,
                   skip_count, success_count, error_count, requests,
                   confirmed, reported, app_id, objective_ws_ids,
                   target_workspaces>>
    /\ UNCHANGED sc_others

\* "Get or fetch app ID": get_extension_app_id returns an id, returns
\* nothing or raises
ext_app_id ==
    /\ script = "set_workspace_extension" /\ sc_pc = "loaded"
    /\ IF args.app_id # NoId
       THEN /\ app_id' = args.app_id
            /\ sc_pc' = "objectives"
            /\ UNCHANGED <<exit_code, reported>>
       ELSE \E fetched \in {"found", "none", "raises"} :
            IF fetched = "found"
            THEN /\ app_id' = 1
                 /\ sc_pc' = "objectives"
                 /\ UNCHANGED <<exit_code, reported>>
            ELSE /\ app_id' = app_id
                 /\ reported' = reported \cup {"app_not_found"}
                 /\ ExitWith(1)
    /\ UNCHANGED <<sc_data, user_registry, group_registry,
                   registries_loaded, member_ids, idx, changes_to_make,
                   skip_count, success_count, error_count, requests,
                   confirmed, objective_ws_ids, target_workspaces>>
    /\ UNCHANGED sc_others

\* "Parse objective workspace IDs if provided"
ext_resolve_objectives ==
    /\ script = "set_workspace_extension" /\ sc_pc = "objectives"
    /\ \E raises \in BOOLEAN :
        IF raises /\ \E i \in 1..Len(args.objective_workspaces) :
                        args.objective_workspaces[i].shape = "name"
        THEN /\ reported' = reported \cup {"workspace_resolve_error"}
             /\ ExitWith(1)
             /\ UNCHANGED objective_ws_ids
        ELSE /\ objective_ws_ids' =
                    resolve_objectives(args.objective_workspaces, 1,
                                       api_workspace_names, <<>>)
             /\ reported' =
                    IF \E i \in 1..Len(args.objective_workspaces) :
                          /\ args.objective_workspaces[i].shape = "name"
                          /\ get_workspace_id_from_name(api_workspace_names,
                                 args.objective_workspaces[i].ref) = NoId
                    THEN reported \cup {"workspace_not_found"}
                    ELSE reported
             /\ sc_pc' = "folder"
             /\ exit_code' = exit_code
    /\ UNCHANGED <<sc_data, user_registry, group_registry,
                   registries_loaded, member_ids, idx, changes_to_make,
                   skip_count, success_count, error_count, requests,
                   confirmed, app_id, target_workspaces>>
    /\ UNCHANGED sc_others

\* get_workspaces_in_folder(args.folder): for a folder that does not exist
\* it raises or returns no workspaces
ext_folder ==
    /\ script = "set_workspace_extension" /\ sc_pc = "folder"
    /\ \E fetched \in {"ok", "raises"} :
        IF fetched = "raises"
        THEN /\ reported' = reported \cup {"folder_error"}
             /\ ExitWith(1)
             /\ UNCHANGED target_workspaces
        ELSE IF ~api_folder.exists \/ api_folder.workspaces = <<>>
        THEN /\ reported' = reported \cup {"no_workspaces_in_folder"}
             /\ ExitWith(0)
             /\ UNCHANGED target_workspaces
        ELSE /\ target_workspaces' = api_folder.workspaces
             /\ sc_pc' = "confirm"
             /\ UNCHANGED <<exit_code, reported>>
    /\ UNCHANGED <<sc_data, user_registry, group_registry,
                   registries_loaded, member_ids, idx, changes_to_make,
                   skip_count, success_count, error_count, requests,
                   confirmed, app_id, objective_ws_ids>>
    /\ UNCHANGED sc_others

\* confirm_action(): asks again until the answer is y/yes or n/no
ext_confirm ==
    /\ script = "set_workspace_extension" /\ sc_pc = "confirm"
    /\ \E response \in {"y", "n", "other", "eof"} :
        /\ confirmed' = response
        /\ CASE response = "y" -> sc_pc' = "install" /\ exit_code' = exit_code
             [] response = "n" -> ExitWith(0)
             [] response = "other" -> UNCHANGED <<sc_pc, exit_code>>
             [] response = "eof" -> ExitWith(1)
    /\ idx' = 1
    /\ UNCHANGED <<sc_data, user_registry, group_registry,
                   registries_loaded, member_ids, changes_to_make,
                   skip_count, success_count, error_count, requests,
                   reported, app_id, objective_ws_ids, target_workspaces>>
    /\ UNCHANGED sc_others

\* "Process each workspace", one iteration: install_workspace_extension
ext_install ==
    /\ script = "set_workspace_extension" /\ sc_pc = "install"
    /\ idx <= Len(target_workspaces)
    /\ requests' = Append(requests, install_request(target_workspaces[idx]))
    /\ \E outcome \in ApiOutcome :
        CASE outcome = "ok" ->
                /\ success_count' = success_count + 1
                /\ UNCHANGED <<error_count, sc_pc, exit_code>>
          [] outcome = "bad_response" ->
                /\ error_count' = error_count + 1
                /\ UNCHANGED <<success_count, sc_pc, exit_code>>
          [] outcome = "http_error" ->
                /\ ExitWith(1)
                /\ UNCHANGED <<success_count, error_count>>
    /\ idx' = idx + 1
    /\ UNCHANGED <<sc_data, user_registry, group_registry,
                   registries_loaded, member_ids, changes_to_make,
                   skip_count, confirmed, reported, app_id,
                   objective_ws_ids, target_workspaces>>
    /\ UNCHANGED sc_others

ext_summary ==
    script = "set_workspace_extension"
        /\ summary("install", Len(target_workspaces))

sc_Next ==
    \/ sr_validate_args \/ load_registries \/ sr_orphaned_members
    \/ sr_group_members \/ sr_first_pass \/ sr_confirm \/ sr_apply
    \/ sr_summary
    \/ se_find_group \/ se_process \/ se_summary
    \/ ext_validate_args \/ ext_app_id \/ ext_resolve_objectives
    \/ ext_folder \/ ext_confirm \/ ext_install \/ ext_summary


\* ---- the returned folder forest
\* ids of the folder nodes (one entry per node) that carry workspace w
RECURSIVE AttachingFolders(_, _)
AttachingFolders(w, s) ==
    IF s = <<>> THEN <<>>
    ELSE (IF Head(s).is_folder
          THEN (IF \E k \in 1..Len(Head(s).workspaces) :
                       Head(s).workspaces[k].workspace = w
                THEN <<Head(s).folder_data>> ELSE <<>>)
                   \o AttachingFolders(w, Head(s).children)
          ELSE <<>>)
             \o AttachingFolders(w, Tail(s))

\* ids of all folder nodes of a forest
RECURSIVE FolderNodes(_)
FolderNodes(s) ==
    IF s = <<>> THEN {}
    ELSE (IF Head(s).is_folder
          THEN {Head(s).folder_data} \cup FolderNodes(Head(s).children)
          ELSE {})
             \cup FolderNodes(Tail(s))

RootLeafCount(w) ==
    Cardinality({k \in 1..Len(fh_roots) : fh_roots[k] = WorkspaceLeaf(w)})

\* positions in folders_with_embed of the folders whose embedded list has w
FoldersListing(w) ==
    {i \in 1..Len(folders_with_embed) :
        w \in Range(folders_with_embed[i][2].workspaces)}

LastFolderListing(w) ==
    folders_with_embed[CHOOSE i \in FoldersListing(w) :
                           \A j \in FoldersListing(w) : j <= i][1]

\* C2 (as claimed): the builders return a forest for every finite input;
\* here: build_folder_hierarchy never ends in an uncaught exception
\* instead of returning.
C2_BuildersReturnForest == fh_pc # "raised"

\* C8 (as claimed): a workspace listed in no folder's embedded list is a
\* root-level leaf; a workspace listed by several folders is attached to
\* exactly one folder node, the last folder processed, and to no other.
C8_OrphansAndLastOneWins ==
    fh_pc = "done" =>
        \A w \in Range(fh_workspaces) :
            /\ FoldersListing(w) = {} =>
                   RootLeafCount(w) = 1 /\ AttachingFolders(w, fh_roots) = <<>>
            /\ Cardinality(FoldersListing(w)) >= 2 =>
                   AttachingFolders(w, fh_roots) = <<LastFolderListing(w)>>

\* C9 (as claimed): when the folder-details request fails, or a folder
\* comes back as null, the run is not aborted; the hierarchy is returned
\* with a warning logged and the folder left out.
C9_FolderFetchFailureIsSoft ==
    (\/ fh_list_outcome \in {"http_error", "bad_response"}
     \/ /\ fh_list_outcome = "ok"
        /\ \E i \in 1..Len(api_folders) : ~api_folders[i].accessible)
    => /\ fh_pc \notin {"exit", "raised"}
       /\ fh_pc = "done" =>
              /\ fh_warnings >= 1
              /\ \A i \in 1..Len(api_folders) :
                     ~api_folders[i].accessible
                         => i \notin FolderNodes(fh_roots)

\* how many folder nodes of a forest hold folder f
RECURSIVE FolderNodeCount(_, _)
FolderNodeCount(f, s) ==
    IF s = <<>> THEN 0
    ELSE (IF Head(s).is_folder
          THEN (IF Head(s).folder_data = f THEN 1 ELSE 0)
                   + FolderNodeCount(f, Head(s).children)
          ELSE 0)
             + FolderNodeCount(f, Tail(s))

\* C28 (as claimed): in the forest build_folder_hierarchy returns, every
\* input workspace is exactly once in a folder's workspaces list or a
\* root leaf, and every folder whose details were fetched is exactly one
\* folder node, also when a parent is missing or the parents form a cycle.
C28_EveryItemExactlyOnce ==
    fh_pc = "done" =>
        /\ \A w \in Range(fh_workspaces) :
               Len(AttachingFolders(w, fh_roots)) + RootLeafCount(w) = 1
        /\ \A i \in 1..Len(folders_with_embed) :
               FolderNodeCount(folders_with_embed[i][1], fh_roots) = 1

\* ---- the scripts: what they sent and what they reported
RoleScript == script \in {"set_role", "set_editor_role"}

ApiRole(user_id) ==
    IF \E i \in 1..Len(api_users) : api_users[i].userId = user_id
    THEN api_users[CHOOSE i \in 1..Len(api_users) :
                       api_users[i].userId = user_id].role
    ELSE ""

\* C5: set_role.py and set_editor_role.py never pass a user whose current
\* role is admin to set_user_role, and the role of an admin never changes.
C5_AdminNeverModified ==
    RoleScript =>
        /\ \A i \in 1..Len(requests) :
              requests[i].kind = "role" =>
                  /\ requests[i].current_role # "admin"
                  /\ ApiRole(requests[i].target) # "admin"
        /\ \A u \in DOMAIN user_registry :
              ApiRole(u) = "admin" => user_registry[u].role = "admin"

\* C5 witness: a run over a member list holding an admin has finished
\* after changing the role of another member
C5_Witness ==
    /\ RoleScript
    /\ sc_pc = "exited" /\ exit_code = 0
    /\ \E i \in 1..Len(requests) : requests[i].kind = "role"
    /\ \E j \in 1..Len(member_ids) :
          get_user_role(user_registry, member_ids[j]) = "admin"

\* the list the role script loops over
PlannedUsers ==
    IF script = "set_role" THEN changes_to_make ELSE member_ids

\* role requests that did not end in a counted success
FailedUpdates == Len(requests) - success_count

\* C29 (as claimed): when a role update fails in set_role.py or
\* set_editor_role.py, the failure is counted, the loop still goes through
\* every remaining user, and the process then exits with code 1.
C29_FailureCountedRunContinues ==
    (RoleScript /\ sc_pc = "exited" /\ requests # <<>> /\ FailedUpdates > 0)
    => /\ error_count = FailedUpdates
       /\ idx = Len(PlannedUsers) + 1
       /\ exit_code = 1

\* C6 (as claimed): a mutating request is issued only after the
\* confirmation prompt was answered with yes; with --dry-run none is issued.
C6_NoMutationWithoutConfirmation ==
    script \in {"set_role", "set_editor_role", "set_workspace_extension"} =>
        IF script = "set_editor_role" /\ args.dry_run
        THEN requests = <<>>
        ELSE requests # <<>> => confirmed = "y"

\* a name given on the command line was reported as not resolving
MissingEntityReported ==
    reported \cap {"group_not_found", "workspace_not_found", "folder_error",
                   "no_workspaces_in_folder"} # {}

\* C7 (as claimed): once a name is reported as not resolving, the script
\* has terminated and has issued no mutating request.
C7_MissingEntityAborts ==
    MissingEntityReported => sc_pc = "exited" /\ requests = <<>>

\* ===================================================================
\*  is_okr_workspace
\* ===================================================================
OkrAlphabet == {"o", "k", "r", "K"}

OkrText == SeqsUpTo(OkrAlphabet, MaxText)

okr == <<"o", "k", "r">>

\* workspace.get('namespace', ''): missing, a string, or a dict whose
\* typeId is text; workspace.get('itemType', ''): missing or a string
OkrWorkspace ==
    [namespace : [kind : {"missing"}, text : {<<>>}]
                     \cup [kind : {"str", "dict"}, text : OkrText],
     itemType : [kind : {"missing"}, text : {<<>>}]
                    \cup [kind : {"str"}, text : OkrText]]

\* get_okr_compliance.is_okr_workspace
is_okr_workspace(workspace) ==
    LET namespace == workspace.namespace
        item_type == workspace.itemType.text
    IN IF namespace.kind \in {"missing", "str"}
          /\ Contains(Lower(namespace.text), okr)
       THEN TRUE
       ELSE IF namespace.kind = "dict" /\ Contains(Lower(namespace.text), okr)
       THEN TRUE
       ELSE IF Contains(Lower(item_type), okr)
       THEN TRUE
       ELSE FALSE

\* list_okr_access.is_okr_workspace
list_okr_access_is_okr_workspace(workspace) ==
    LET namespace == workspace.namespace
        item_type == workspace.itemType.text
    IN IF namespace.kind \in {"missing", "str"}
          /\ Contains(namespace.text, okr)
       THEN TRUE
       ELSE IF namespace.kind = "dict" /\ Contains(namespace.text, okr)
       THEN TRUE
       ELSE IF Contains(Lower(item_type), okr)
       THEN TRUE
       ELSE FALSE

okr_Init ==
    /\ okr_pc = "start"
    /\ okr_workspace \in OkrWorkspace
    /\ okr_compliance = FALSE
    /\ okr_access = FALSE

okr_call_compliance ==
    /\ okr_pc = "start"
    /\ okr_compliance' = is_okr_workspace(okr_workspace)
    /\ okr_pc' = "access"
    /\ UNCHANGED <<okr_workspace, okr_access>>
    /\ UNCHANGED okr_others

okr_call_access ==
    /\ okr_pc = "access"
    /\ okr_access' = list_okr_access_is_okr_workspace(okr_workspace)
    /\ okr_pc' = "done"
    /\ UNCHANGED <<okr_workspace, okr_compliance>>
    /\ UNCHANGED okr_others

okr_Next == okr_call_compliance \/ okr_call_access

\* "okr" occurs in the text in some letter case
HasOkrAnyCase(text) ==
    \E i \in 1..(Len(text) - 2) :
        /\ text[i] \in {"o", "O"}
        /\ text[i + 1] \in {"k", "K"}
        /\ text[i + 2] \in {"r", "R"}

\* C10 (as claimed): both is_okr_workspace functions return true exactly
\* when the namespace (string or typeId) or the itemType contains "okr" in
\* any letter case.
C10_OkrIffAnyCase ==
    okr_pc = "done" =>
        LET expected == \/ HasOkrAnyCase(okr_workspace.namespace.text)
                        \/ HasOkrAnyCase(okr_workspace.itemType.text)
        IN okr_compliance = expected /\ okr_access = expected

\* ============================================== compliance formatters
\* get_okr_compliance.py and get_prodmgt_compliance.py

NoneValue == "None"     \* Python's None (workspace.get('defaultPermission'))

OKR == <<"O", "K", "R">>

AirfocusAdmins ==
    <<"A", "i", "r", "f", "o", "c", "u", "s", " ",
      "A", "d", "m", "i", "n", "s">>

Suffix_F == <<"_", "F">>

Suffix_W == <<"_", "W">>

Suffix_F_U == <<"_", "F", "_", "U">>

Suffix_W_U == <<"_", "W", "_", "U">>

\* names of the groups of the registry the formatters read
FmtGroupNames ==
    <<SP_OKR_ \o <<"A">> \o Suffix_F,
      SP_OKR_ \o <<"A">> \o Suffix_W,
      SP_OKR_ \o <<"A">> \o Suffix_F_U,
      SP_OKR_ \o <<"A">> \o Suffix_W_U,
      SP_OKR_ \o <<"B">> \o Suffix_C_U,
      SP_ProdMgt_ \o <<"A">> \o Suffix_F,
      SP_ProdMgt_ \o <<"A">> \o Suffix_W,
      SP_ProdMgt_ \o <<"A">> \o Suffix_F_U,
      SP_ProdMgt_ \o <<"A">> \o Suffix_W_U,
      SP_ProdMgt_ \o <<"B">> \o Suffix_C_U,
      AirfocusAdmins>>

\* _group_registry once load_registries has run
FmtGroupRegistry ==
    [i \in 1..Len(FmtGroupNames) |->
        [id |-> i, name |-> FmtGroupNames[i], userIds |-> <<>>]]

\* a group id that is not in the registry
UnknownGroupId == Len(FmtGroupNames) + 1

FmtGroupIds == 1..UnknownGroupId

\* a group id returned in place of a name: a text that is no group name
IdText(group_id) == <<"g", "r", "p", "-", "x">>

\* get_usergroup_name(group_id) on the registry gr
get_usergroup_name(gr, group_id) ==
    IF \E i \in 1..Len(gr) : gr[i].id = group_id
    THEN gr[CHOOSE i \in 1..Len(gr) : gr[i].id = group_id].name
    ELSE IdText(group_id)

FmtUserIds == 1..2

FmtPermissions == {"full", "write", "comment"}

FmtColors == {"", "yellow", "great", "purple"}

FmtAliases == {<<>>, OKR \o <<"1">>, <<"C", "M", "S">>}

FmtDefaultPermissions == {NoneValue, "comment", "write", "none"}

\* dicts with at most n keys
MapsUpTo(keys, values, n) ==
    UNION {[D -> values] : D \in {K \in SUBSET keys : Cardinality(K) <= n}}

\* a workspace as the formatters read it: alias, itemColor,
\* defaultPermission and the two embedded permission maps
FmtWorkspace ==
    [id : {1},
     alias : FmtAliases,
     itemColor : FmtColors,
     defaultPermission : FmtDefaultPermissions,
     permissions : MapsUpTo(FmtUserIds, {"write"}, MaxUserPerms),
     userGroupPermissions :
         MapsUpTo(FmtGroupIds, FmtPermissions, MaxGroupPerms)]

\* one line of formatter output: whose line it is, what it shows, its
\* indent, whether it ends with "(Wrong)" and the colour of its text
Line(of, item, kind, depth, ref, wrong, color) ==
    [of |-> of, item |-> item, kind |-> kind, depth |-> depth, ref |-> ref,
     wrong |-> wrong, color |-> color]

\* the colour a detail line is printed in
tint(workspace_color, is_red) ==
    IF workspace_color # NoneValue THEN workspace_color
    ELSE IF is_red THEN "red" ELSE NoneValue

color_mapping ==
    [c \in {"yellow", "orange", "great", "blue"} |->
        IF c = "great" THEN "green" ELSE c]

valid_colors == {"yellow", "orange", "great", "blue"}

has_user_access_with_viewer(user_permissions, current_user_id) ==
    DOMAIN user_permissions # {}

\* any(uid != current_user_id for uid in user_permissions.keys())
has_user_access(user_permissions, current_user_id) ==
    \E uid \in DOMAIN user_permissions : uid # current_user_id

\* get_okr_compliance.format_workspace_access: the group checks
okr_group_highlight(group_name, permission) ==
    IF ~StartsWith(group_name, SP_OKR_) /\ group_name # AirfocusAdmins
    THEN TRUE
    ELSE IF EndsWith(group_name, Suffix_F) /\ permission # "full"
    THEN TRUE
    ELSE IF EndsWith(group_name, Suffix_W) /\ permission # "write"
    THEN TRUE
    ELSE FALSE

\* get_prodmgt_compliance.format_workspace_access: the group checks
prodmgt_group_highlight(group_name, permission) ==
    IF ~StartsWith(group_name, SP_ProdMgt_) /\ group_name # AirfocusAdmins
    THEN TRUE
    ELSE IF EndsWith(group_name, Suffix_F_U) /\ permission # "full"
    THEN TRUE
    ELSE IF EndsWith(group_name, Suffix_W_U) /\ permission # "write"
    THEN TRUE
    ELSE IF EndsWith(group_name, Suffix_C_U) /\ permission # "comment"
    THEN TRUE
    ELSE FALSE

\* get_prodmgt_compliance.format_folder_access: the group checks
folder_group_highlight(group_name, permission) ==
    IF ~StartsWith(group_name, SP_ProdMgt_) /\ group_name # AirfocusAdmins
    THEN TRUE
    ELSE IF EndsWith(group_name, Suffix_F_U) /\ permission # "full"
    THEN TRUE
    ELSE IF EndsWith(group_name, Suffix_W_U) /\ permission # "write"
    THEN TRUE
    ELSE IF EndsWith(group_name, Suffix_C_U) /\ permission # "comment"
    THEN TRUE
    ELSE FALSE

\* "Users:" and one line per user other than the current one, sorted
user_lines(of, item, user_perms_filtered, depth, header_color, color) ==
    LET uids == SortedSeq(DOMAIN user_perms_filtered)
    IN IF uids = <<>> THEN <<>>
       ELSE <<Line(of, item, "users_header", depth + 1, NoId, FALSE,
                   header_color)>>
            \o [i \in 1..Len(uids) |->
                   Line(of, item, "user", depth + 2, uids[i], TRUE, color)]

\* the loop over sorted(group_permissions.items()): the header is added
\* before the first highlighted group when the plain header text is not
\* yet among the lines
RECURSIVE group_lines(_, _, _, _, _, _, _, _, _)
group_lines(lines, gids, i, highlight, of, item, depth, show_all, color) ==
    IF i > Len(gids) THEN lines
    ELSE LET group_id == gids[i]
             plain_header == Line(of, item, "groups_header", depth + 1,
                                  NoId, FALSE, NoneValue)
             groups_header == Line(of, item, "groups_header", depth + 1,
                                   NoId, FALSE, color)
             group_line == Line(of, item, "group", depth + 2, group_id,
                                highlight[group_id],
                                tint(color, highlight[group_id]))
             with_header ==
                 IF ~show_all /\ highlight[group_id]
                    /\ plain_header \notin Range(lines)
                 THEN Append(lines, groups_header)
                 ELSE lines
         IN group_lines(IF show_all \/ highlight[group_id]
                        THEN Append(with_header, group_line)
                        ELSE lines,
                        gids, i + 1, highlight, of, item, depth, show_all,
                        color)

\* get_okr_compliance.format_workspace_access
format_workspace_access(workspace, current_user_id, depth, show_all) ==
    LET user_permissions == workspace.permissions
        user_access == has_user_access(user_permissions, current_user_id)
        item_key == workspace.alias
        item_color == workspace.itemColor
        workspace_color ==
            IF item_color # "" /\ item_color \in DOMAIN color_mapping
            THEN color_mapping[item_color] ELSE NoneValue
        group_permissions == workspace.userGroupPermissions
        default_permission == workspace.defaultPermission
        color_is_red == item_color = "" \/ item_color \notin valid_colors
        key_is_red == item_key = <<>> \/ ~StartsWith(item_key, OKR)
        has_default == default_permission \notin {NoneValue, ""}
        default_is_red == default_permission # "comment"
        user_perms_filtered ==
            [uid \in {u \in DOMAIN user_permissions : u # current_user_id}
                |-> user_permissions[uid]]
        highlight ==
            [g \in DOMAIN group_permissions |->
                okr_group_highlight(get_usergroup_name(FmtGroupRegistry, g),
                                    group_permissions[g])]
        has_red_flag ==
            \/ user_access
            \/ color_is_red
            \/ key_is_red
            \/ has_default /\ default_is_red
            \/ \E g \in DOMAIN group_permissions : highlight[g]
        id == workspace.id
        color_line ==
            IF show_all \/ color_is_red
            THEN <<Line("workspace", id, "color", depth + 1, NoId,
                        color_is_red,
                        IF color_is_red THEN "red" ELSE workspace_color)>>
            ELSE <<>>
        key_line ==
            IF show_all \/ key_is_red
            THEN <<Line("workspace", id, "key", depth + 1, NoId, key_is_red,
                        tint(workspace_color, key_is_red))>>
            ELSE <<>>
        default_line ==
            IF has_default /\ (show_all \/ default_is_red)
            THEN <<Line("workspace", id, "default", depth + 1, NoId,
                        default_is_red,
                        tint(workspace_color, default_is_red))>>
            ELSE <<>>
        users == user_lines("workspace", id, user_perms_filtered, depth,
                            workspace_color, tint(workspace_color, TRUE))
        groups_header ==
            IF DOMAIN group_permissions # {} /\ show_all
            THEN <<Line("workspace", id, "groups_header", depth + 1, NoId,
                        FALSE, workspace_color)>>
            ELSE <<>>
        lines ==
            group_lines(color_line \o key_line \o default_line \o users
                            \o groups_header,
                        SortedSeq(DOMAIN group_permissions), 1, highlight,
                        "workspace", id, depth, show_all, workspace_color)
        workspace_name_line ==
            Line("workspace", id, "name", depth, NoId, has_red_flag,
                 tint(workspace_color, has_red_flag))
    IN [lines |-> <<workspace_name_line>> \o lines,
        has_red_flag |-> has_red_flag]

\* get_prodmgt_compliance.format_workspace_access
prodmgt_format_workspace_access(workspace, current_user_id, depth, show_all) ==
    LET user_permissions == workspace.permissions
        user_access == has_user_access(user_permissions, current_user_id)
        item_color == workspace.itemColor
        workspace_color ==
            IF item_color # "" /\ item_color \in DOMAIN color_mapping
            THEN color_mapping[item_color] ELSE NoneValue
        group_permissions == workspace.userGroupPermissions
        default_permission == workspace.defaultPermission
        has_default == default_permission \notin {NoneValue, ""}
        user_perms_filtered ==
            [uid \in {u \in DOMAIN user_permissions : u # current_user_id}
                |-> user_permissions[uid]]
        highlight ==
            [g \in DOMAIN group_permissions |->
                prodmgt_group_highlight(get_usergroup_name(FmtGroupRegistry, g),
                                        group_permissions[g])]
        has_red_flag ==
            \/ user_access
            \/ \E g \in DOMAIN group_permissions : highlight[g]
        id == workspace.id
        color_line ==
            IF show_all
            THEN <<Line("workspace", id, "color", depth + 1, NoId, FALSE,
                        workspace_color)>>
            ELSE <<>>
        key_line ==
            IF show_all
            THEN <<Line("workspace", id, "key", depth + 1, NoId, FALSE,
                        workspace_color)>>
            ELSE <<>>
        default_line ==
            IF has_default /\ show_all
            THEN <<Line("workspace", id, "default", depth + 1, NoId, FALSE,
                        workspace_color)>>
            ELSE <<>>
        users == user_lines("workspace", id, user_perms_filtered, depth,
                            workspace_color, tint(workspace_color, TRUE))
        groups_header ==
            IF DOMAIN group_permissions # {} /\ show_all
            THEN <<Line("workspace", id, "groups_header", depth + 1, NoId,
                        FALSE, workspace_color)>>
            ELSE <<>>
        lines ==
            group_lines(color_line \o key_line \o default_line \o users
                            \o groups_header,
                        SortedSeq(DOMAIN group_permissions), 1, highlight,
                        "workspace", id, depth, show_all, workspace_color)
        workspace_name_line ==
            Line("workspace", id, "name", depth, NoId, has_red_flag,
                 tint(workspace_color, has_red_flag))
    IN [lines |-> <<workspace_name_line>> \o lines,
        has_red_flag |-> has_red_flag]

\* get_prodmgt_compliance.format_folder_access: a folder has the two
\* permission maps only; every line is yellow
format_folder_access(folder_data, current_user_id, depth, show_all) ==
    LET user_permissions == folder_data.permissions
        group_permissions == folder_data.userGroupPermissions
        user_access == has_user_access(user_permissions, current_user_id)
        user_perms_filtered ==
            [uid \in {u \in DOMAIN user_permissions : u # current_user_id}
                |-> user_permissions[uid]]
        highlight ==
            [g \in DOMAIN group_permissions |->
                folder_group_highlight(get_usergroup_name(FmtGroupRegistry, g),
                                       group_permissions[g])]
        has_red_flag ==
            \/ user_access
            \/ \E g \in DOMAIN group_permissions : highlight[g]
        id == folder_data.id
        users == user_lines("folder", id, user_perms_filtered, depth,
                            "yellow", "yellow")
        groups_header ==
            IF DOMAIN group_permissions # {} /\ show_all
            THEN <<Line("folder", id, "groups_header", depth + 1, NoId,
                        FALSE, "yellow")>>
            ELSE <<>>
        lines ==
            group_lines(users \o groups_header,
                        SortedSeq(DOMAIN group_permissions), 1, highlight,
                        "folder", id, depth, show_all, "yellow")
        folder_name_line ==
            Line("folder", id, "name", depth, NoId, has_red_flag, "yellow")
    IN [lines |-> <<folder_name_line>> \o lines,
        has_red_flag |-> has_red_flag]

\* the formatters are applied to one workspace (read as a folder by
\* format_folder_access, which looks at name and permission maps only)
cmp_format_Init ==
    /\ cmp_pc = "format_okr"
    /\ cmp_input \in FmtWorkspace
    /\ cmp_user_id = 1
    /\ cmp_show_all \in BOOLEAN
    /\ cmp_okr = <<>>
    /\ cmp_prodmgt = <<>>
    /\ cmp_folder = <<>>
    /\ output = <<>>

\* no compliance tool is running
cmp_Idle ==
    /\ cmp_pc = "idle"
    /\ cmp_input = <<>>
    /\ cmp_user_id = NoId
    /\ cmp_show_all = FALSE
    /\ cmp_okr = <<>>
    /\ cmp_prodmgt = <<>>
    /\ cmp_folder = <<>>
    /\ output = <<>>

cmp_format_okr ==
    /\ cmp_pc = "format_okr"
    /\ cmp_okr' = format_workspace_access(cmp_input, cmp_user_id, 0,
                                          cmp_show_all)
    /\ cmp_pc' = "format_prodmgt"
    /\ UNCHANGED <<cmp_input, cmp_user_id, cmp_show_all, cmp_prodmgt,
                   cmp_folder, output>>
    /\ UNCHANGED cmp_others

cmp_format_prodmgt ==
    /\ cmp_pc = "format_prodmgt"
    /\ cmp_prodmgt' = prodmgt_format_workspace_access(cmp_input,
                          cmp_user_id, 0, cmp_show_all)
    /\ cmp_pc' = "format_folder"
    /\ UNCHANGED <<cmp_input, cmp_user_id, cmp_show_all, cmp_okr,
                   cmp_folder, output>>
    /\ UNCHANGED cmp_others

cmp_format_folder ==
    /\ cmp_pc = "format_folder"
    /\ cmp_folder' = format_folder_access(cmp_input, cmp_user_id, 0,
                                          cmp_show_all)
    /\ cmp_pc' = "formatted"
    /\ UNCHANGED <<cmp_input, cmp_user_id, cmp_show_all, cmp_okr,
                   cmp_prodmgt, output>>
    /\ UNCHANGED cmp_others

cmp_format_Next == cmp_format_okr \/ cmp_format_prodmgt \/ cmp_format_folder

\* =============================================== compliance reports
\* print_okr_hierarchy (get_okr_compliance.py) and print_folder_hierarchy
\* (get_prodmgt_compliance.py)

\* print(): the empty line after a root-level item
BlankLine == Line("none", NoId, "blank", 0, NoId, FALSE, NoneValue)

RECURSIVE has_okr_descendants(_, _), any_okr_descendants(_, _, _)

\* has_okr_descendants(node, visited): the result and the visited set,
\* which the callers' any(...) shares between siblings
has_okr_descendants(node, visited) ==
    LET ws_id == node.workspace.id
    IN IF ws_id \in visited
       THEN [r |-> FALSE, visited |-> visited]
       ELSE IF is_okr_workspace(node.workspace)
       THEN [r |-> TRUE, visited |-> visited \cup {ws_id}]
       ELSE any_okr_descendants(node.children, 1, visited \cup {ws_id})

\* any(has_okr_descendants(child, visited) for child in children)
any_okr_descendants(children, i, visited) ==
    IF i > Len(children) THEN [r |-> FALSE, visited |-> visited]
    ELSE LET c == has_okr_descendants(children[i], visited)
         IN IF c.r THEN c
            ELSE any_okr_descendants(children, i + 1, c.visited)

RECURSIVE has_errors_in_subtree(_, _, _), any_errors_in_subtree(_, _, _, _)

has_errors_in_subtree_children_only(node, current_user_id, visited) ==
    LET ws_id == node.workspace.id
    IN IF ws_id \in visited
       THEN [r |-> FALSE, visited |-> visited]
       ELSE any_errors_in_subtree(node.children, 1, current_user_id,
                                  visited \cup {ws_id})

\* has_errors_in_subtree(node, current_user_id, visited)
has_errors_in_subtree(node, current_user_id, visited) ==
    LET ws_id == node.workspace.id
    IN IF ws_id \in visited
       THEN [r |-> FALSE, visited |-> visited]
       ELSE IF is_okr_workspace(node.workspace)
               /\ format_workspace_access(node.workspace, current_user_id,
                      0, FALSE).has_red_flag
       THEN [r |-> TRUE, visited |-> visited \cup {ws_id}]
       ELSE any_errors_in_subtree(node.children, 1, current_user_id,
                                  visited \cup {ws_id})

\* the loop "for child in node.get('children', [])" of
\* has_errors_in_subtree
any_errors_in_subtree(children, i, current_user_id, visited) ==
    IF i > Len(children) THEN [r |-> FALSE, visited |-> visited]
    ELSE LET c == has_errors_in_subtree(children[i], current_user_id,
                                        visited)
         IN IF c.r THEN c
            ELSE any_errors_in_subtree(children, i + 1, current_user_id,
                                       c.visited)

has_okr_children_direct_only(node) ==
    \E i \in 1..Len(node.children) :
        is_okr_workspace(node.children[i].workspace)

\* print_okr_hierarchy: "Check if any children are OKR workspaces"
has_okr_children(node) ==
    \E i \in 1..Len(node.children) :
        \/ is_okr_workspace(node.children[i].workspace)
        \/ has_okr_descendants(node.children[i], {}).r

RECURSIVE print_okr_hierarchy(_, _, _, _, _), print_okr_children(_, _, _, _, _, _)

\* print_okr_hierarchy: the lines it prints
print_okr_hierarchy(node, current_user_id, depth, show_all, parent_has_error) ==
    LET workspace == node.workspace
        should_show_okr == is_okr_workspace(workspace)
        formatted == format_workspace_access(workspace, current_user_id,
                                             depth, show_all)
        lines == formatted.lines
        has_red_flag == formatted.has_red_flag
        descendant_has_error ==
            \E i \in 1..Len(node.children) :
                has_errors_in_subtree(node.children[i], current_user_id,
                                      {}).r
        own == IF show_all THEN lines
               ELSE IF has_red_flag THEN lines
               ELSE IF parent_has_error \/ descendant_has_error
               THEN <<lines[1]>>
               ELSE <<>>
    IN IF should_show_okr \/ has_okr_children(node)
       THEN own
            \o print_okr_children(node.children, 1, current_user_id,
                   depth + 1, show_all,
                   parent_has_error \/ has_red_flag \/ descendant_has_error)
            \o (IF depth = 0 THEN <<BlankLine>> ELSE <<>>)
       ELSE <<>>

\* "for child in children: print_okr_hierarchy(child, ...)"
print_okr_children(children, i, current_user_id, depth, show_all, parent_has_error) ==
    IF i > Len(children) THEN <<>>
    ELSE print_okr_hierarchy(children[i], current_user_id, depth, show_all,
                             parent_has_error)
         \o print_okr_children(children, i + 1, current_user_id, depth,
                               show_all, parent_has_error)

\* get_okr_compliance.main: "Process each root workspace"
RECURSIVE okr_report(_, _, _, _)
okr_report(hierarchy_roots, i, current_user_id, all) ==
    IF i > Len(hierarchy_roots) THEN <<>>
    ELSE LET root == hierarchy_roots[i]
         IN (IF all
             THEN print_okr_hierarchy(root, current_user_id, 0, TRUE, FALSE)
             ELSE IF is_okr_workspace(root.workspace)
                     \/ has_okr_descendants(root, {}).r
             THEN print_okr_hierarchy(root, current_user_id, 0, FALSE, FALSE)
             ELSE <<>>)
            \o okr_report(hierarchy_roots, i + 1, current_user_id, all)

\* parent of every item of a hierarchy of n items, 0 for a root; items
\* are numbered parents first
Parents(n) == {p \in [1..n -> 0..(n - 1)] : \A i \in 1..n : p[i] < i}

ChildrenOf(p, i) == SortedSeq({j \in DOMAIN p : p[j] = i})

\* the node build_workspace_hierarchy returns for item i
RECURSIVE WorkspaceNode(_, _, _)
WorkspaceNode(p, ws, i) ==
    LET kids == ChildrenOf(p, i)
    IN [workspace |-> ws[i],
        children |-> [k \in 1..Len(kids) |-> WorkspaceNode(p, ws, kids[k])]]

\* a workspace of the report: OKR or not, with a right or wrong colour
\* and item key
RepWorkspace(id) ==
    [id : {id},
     namespace : [kind : {"str"}, text : {okr, <<"k">>}],
     itemType : [kind : {"missing"}, text : {<<>>}],
     alias : {OKR \o <<"1">>, <<"C", "M", "S">>},
     itemColor : {"yellow", "purple"},
     defaultPermission : {"comment"},
     permissions : {EmptyMap},
     userGroupPermissions : {EmptyMap}]

\* the forests of at most MaxItems workspaces
OkrForests ==
    UNION {
        {LET kids == ChildrenOf(p, 0)
         IN [k \in 1..Len(kids) |-> WorkspaceNode(p, ws, kids[k])] :
            p \in Parents(n),
            ws \in {f \in [1..n -> UNION {RepWorkspace(i) : i \in 1..n}] :
                       \A i \in 1..n : f[i].id = i}}
        : n \in 1..MaxItems}

\* utils.is_okr_workspace, imported by get_prodmgt_compliance.py: taken
\* to classify as get_okr_compliance.is_okr_workspace does
utils_is_okr_workspace(workspace) == is_okr_workspace(workspace)

\* get_prodmgt_compliance.is_prodmgt_workspace
is_prodmgt_workspace(workspace) == ~utils_is_okr_workspace(workspace)

\* "if ws_id in _cache ... else format_workspace_access(...);
\* _cache[ws_id] = has_red_flag"
cached_workspace_flag(workspace, current_user_id, _cache) ==
    IF workspace.id \in DOMAIN _cache
    THEN [r |-> _cache[workspace.id], cache |-> _cache]
    ELSE LET has_red_flag ==
                 prodmgt_format_workspace_access(workspace, current_user_id,
                     0, FALSE).has_red_flag
         IN [r |-> has_red_flag,
             cache |-> Put(_cache, workspace.id, has_red_flag)]

\* "if folder_id in _cache ... else format_folder_access(...)"
cached_folder_flag(folder_data, current_user_id, _cache) ==
    IF folder_data.id \in DOMAIN _cache
    THEN [r |-> _cache[folder_data.id], cache |-> _cache]
    ELSE LET has_red_flag ==
                 format_folder_access(folder_data, current_user_id, 0,
                                      FALSE).has_red_flag
         IN [r |-> has_red_flag,
             cache |-> Put(_cache, folder_data.id, has_red_flag)]

RECURSIVE has_errors_in_node(_, _, _), errors_in_workspaces(_, _, _, _), errors_in_children(_, _, _, _)

\* has_errors_in_node(node, current_user_id, verify_ssl, _cache): the
\* result and the shared cache
has_errors_in_node(node, current_user_id, _cache) ==
    IF node.is_folder
    THEN LET f == cached_folder_flag(node.folder_data, current_user_id,
                                     _cache)
         IN IF f.r THEN f
            ELSE LET w == errors_in_workspaces(node.workspaces, 1,
                                               current_user_id, f.cache)
                 IN IF w.r THEN w
                    ELSE errors_in_children(node.children, 1,
                                            current_user_id, w.cache)
    ELSE IF is_prodmgt_workspace(node.workspace)
    THEN cached_workspace_flag(node.workspace, current_user_id, _cache)
    ELSE [r |-> FALSE, cache |-> _cache]

\* "Check workspaces in this folder"
errors_in_workspaces(ws_nodes, i, current_user_id, _cache) ==
    IF i > Len(ws_nodes) THEN [r |-> FALSE, cache |-> _cache]
    ELSE IF is_prodmgt_workspace(ws_nodes[i].workspace)
    THEN LET w == cached_workspace_flag(ws_nodes[i].workspace,
                                        current_user_id, _cache)
         IN IF w.r THEN w
            ELSE errors_in_workspaces(ws_nodes, i + 1, current_user_id,
                                      w.cache)
    ELSE errors_in_workspaces(ws_nodes, i + 1, current_user_id, _cache)

\* "Check subfolders recursively"
errors_in_children(children, i, current_user_id, _cache) ==
    IF i > Len(children) THEN [r |-> FALSE, cache |-> _cache]
    ELSE LET c == has_errors_in_node(children[i], current_user_id, _cache)
         IN IF c.r THEN c
            ELSE errors_in_children(children, i + 1, current_user_id,
                                    c.cache)

\* "if show_all: print all lines; elif has_red_flag: print all lines;
\* elif <name is wanted>: print(lines[0])"
shown_lines(formatted, show_all, show_name) ==
    IF show_all THEN formatted.lines
    ELSE IF formatted.has_red_flag THEN formatted.lines
    ELSE IF show_name THEN <<formatted.lines[1]>>
    ELSE <<>>

\* lines printed before what the rest of a loop prints
printed_before(lines, rest) ==
    [out |-> lines \o rest.out, cache |-> rest.cache]

RECURSIVE print_folder_workspaces(_, _, _, _, _, _, _)

\* one workspace of a folder whose access was formatted: its lines, its
\* flag into the cache, then the workspaces after it
print_folder_workspace(ws_nodes, i, current_user_id, depth, show_all, show_names, _cache, formatted) ==
    printed_before(
        shown_lines(formatted, show_all, show_names),
        print_folder_workspaces(ws_nodes, i + 1, current_user_id, depth,
            show_all, show_names,
            Put(_cache, ws_nodes[i].workspace.id, formatted.has_red_flag)))

\* "Print workspaces in this folder": the lines and the cache
print_folder_workspaces(ws_nodes, i, current_user_id, depth, show_all, show_names, _cache) ==
    IF i > Len(ws_nodes) THEN [out |-> <<>>, cache |-> _cache]
    ELSE IF is_prodmgt_workspace(ws_nodes[i].workspace)
    THEN print_folder_workspace(ws_nodes, i, current_user_id, depth,
             show_all, show_names, _cache,
             prodmgt_format_workspace_access(ws_nodes[i].workspace,
                 current_user_id, depth, show_all))
    ELSE print_folder_workspaces(ws_nodes, i + 1, current_user_id, depth,
                                 show_all, show_names, _cache)

RECURSIVE print_folder_hierarchy(_, _, _, _, _, _), print_folder_children(_, _, _, _, _, _, _)

\* the end of the folder branch: own lines, the workspaces' lines, the
\* subfolders' lines and print() after a root
print_folder_items(own, ws, children, current_user_id, depth, show_all, show_names) ==
    LET sub == print_folder_children(children, 1, current_user_id,
                   depth + 1, show_all, show_names, ws.cache)
    IN [out |-> own \o ws.out \o sub.out
                \o (IF depth = 0 THEN <<BlankLine>> ELSE <<>>),
        cache |-> sub.cache]

\* the folder branch once the folder was formatted and its subtree
\* checked: errors is what has_errors_in_node returned
print_folder_checked(node, current_user_id, depth, show_all, parent_has_error, formatted, errors) ==
    LET has_red_flag == formatted.has_red_flag
        descendant_has_error == errors.r /\ ~has_red_flag
        show_names == parent_has_error \/ has_red_flag
                          \/ descendant_has_error
    IN print_folder_items(
           shown_lines(formatted, show_all,
                       parent_has_error \/ descendant_has_error),
           print_folder_workspaces(node.workspaces, 1, current_user_id,
               depth + 1, show_all, show_names, errors.cache),
           node.children, current_user_id, depth, show_all, show_names)

\* the folder branch once the folder was formatted: "_cache[folder_id] =
\* has_red_flag", then has_errors_in_node on the node itself
print_folder(node, current_user_id, depth, show_all, parent_has_error, _cache, formatted) ==
    print_folder_checked(node, current_user_id, depth, show_all,
        parent_has_error, formatted,
        has_errors_in_node(node, current_user_id,
            Put(_cache, node.folder_data.id, formatted.has_red_flag)))

\* the workspace branch (a workspace at the root) once it was formatted
print_root_workspace(workspace, depth, show_all, parent_has_error, _cache, formatted) ==
    [out |-> shown_lines(formatted, show_all, parent_has_error)
             \o (IF depth = 0 THEN <<BlankLine>> ELSE <<>>),
     cache |-> Put(_cache, workspace.id, formatted.has_red_flag)]

\* print_folder_hierarchy: the lines it prints and the shared cache
print_folder_hierarchy(node, current_user_id, depth, show_all, parent_has_error, _cache) ==
    IF node.is_folder
    THEN print_folder(node, current_user_id, depth, show_all,
             parent_has_error, _cache,
             format_folder_access(node.folder_data, current_user_id, depth,
                                  show_all))
    ELSE IF is_prodmgt_workspace(node.workspace)
    THEN print_root_workspace(node.workspace, depth, show_all,
             parent_has_error, _cache,
             prodmgt_format_workspace_access(node.workspace,
                 current_user_id, depth, show_all))
    ELSE [out |-> <<>>, cache |-> _cache]

\* "Recursively print subfolders"
print_folder_children(children, i, current_user_id, depth, show_all, parent_has_error, _cache) ==
    IF i > Len(children) THEN [out |-> <<>>, cache |-> _cache]
    ELSE LET first == print_folder_hierarchy(children[i], current_user_id,
                          depth, show_all, parent_has_error, _cache)
         IN printed_before(first.out,
                print_folder_children(children, i + 1, current_user_id,
                    depth, show_all, parent_has_error, first.cache))

\* get_prodmgt_compliance.main: "Process each root node"; every root is
\* printed with a cache of its own
RECURSIVE prodmgt_report(_, _, _, _)
prodmgt_report(hierarchy_roots, i, current_user_id, all) ==
    IF i > Len(hierarchy_roots) THEN <<>>
    ELSE print_folder_hierarchy(hierarchy_roots[i], current_user_id, 0, all,
                                FALSE, EmptyMap).out
         \o prodmgt_report(hierarchy_roots, i + 1, current_user_id, all)

\* an item of the folder report: a folder with or without another
\* user's entry, or a workspace (OKR or not) with or without one
RepFolder(id) ==
    [id : {id}, kind : {"folder"},
     permissions : {EmptyMap, 2 :> "write"},
     userGroupPermissions : {EmptyMap}]

RepFolderWorkspace(id) ==
    [id : {id}, kind : {"workspace"},
     namespace : [kind : {"str"}, text : {okr, <<"k">>}],
     itemType : [kind : {"missing"}, text : {<<>>}],
     alias : {<<"C", "M", "S">>},
     itemColor : {"yellow"},
     defaultPermission : {"comment"},
     permissions : {EmptyMap, 2 :> "write"},
     userGroupPermissions : {EmptyMap}]

\* the node build_folder_hierarchy returns for item i
RECURSIVE FolderNode(_, _, _)
FolderNode(p, items, i) ==
    IF items[i].kind = "folder"
    THEN LET kids == ChildrenOf(p, i)
             folders == SelectSeq(kids, LAMBDA j : items[j].kind = "folder")
             wss == SelectSeq(kids, LAMBDA j : items[j].kind = "workspace")
         IN [is_folder |-> TRUE, folder_data |-> items[i],
             children |-> [k \in 1..Len(folders) |->
                              FolderNode(p, items, folders[k])],
             workspaces |-> [k \in 1..Len(wss) |->
                                FolderNode(p, items, wss[k])]]
    ELSE [is_folder |-> FALSE, workspace |-> items[i], children |-> <<>>]

\* the items of a folder hierarchy whose parents are p: a workspace has
\* no children
FolderItems(p, n) ==
    {f \in [1..n -> UNION {RepFolder(i) \cup RepFolderWorkspace(i) :
                               i \in 1..n}] :
        /\ \A i \in 1..n : f[i].id = i
        /\ \A i \in 1..n : p[i] # 0 => f[p[i]].kind = "folder"}

\* the forests of at most MaxItems folders and workspaces
FolderForests ==
    UNION {UNION {
        {LET kids == ChildrenOf(p, 0)
         IN [k \in 1..Len(kids) |-> FolderNode(p, items, kids[k])] :
            items \in FolderItems(p, n)}
        : p \in Parents(n)} : n \in 1..MaxItems}

\* main() of one of the two tools prints the report of a hierarchy
cmp_report_Init ==
    /\ cmp_pc = "report"
    /\ \/ \E f \in OkrForests : cmp_input = [tool |-> "okr", roots |-> f]
       \/ \E f \in FolderForests :
             cmp_input = [tool |-> "prodmgt", roots |-> f]
    /\ cmp_user_id = 1
    /\ cmp_show_all \in BOOLEAN
    /\ cmp_okr = <<>>
    /\ cmp_prodmgt = <<>>
    /\ cmp_folder = <<>>
    /\ output = <<>>

\* get_okr_compliance.main
cmp_report_okr ==
    /\ cmp_pc = "report" /\ cmp_input.tool = "okr"
    /\ output' = okr_report(cmp_input.roots, 1, cmp_user_id, cmp_show_all)
    /\ cmp_pc' = "reported"
    /\ UNCHANGED <<cmp_input, cmp_user_id, cmp_show_all, cmp_okr,
                   cmp_prodmgt, cmp_folder>>
    /\ UNCHANGED cmp_others

\* get_prodmgt_compliance.main
cmp_report_prodmgt ==
    /\ cmp_pc = "report" /\ cmp_input.tool = "prodmgt"
    /\ output' = prodmgt_report(cmp_input.roots, 1, cmp_user_id,
                                cmp_show_all)
    /\ cmp_pc' = "reported"
    /\ UNCHANGED <<cmp_input, cmp_user_id, cmp_show_all, cmp_okr,
                   cmp_prodmgt, cmp_folder>>
    /\ UNCHANGED cmp_others

cmp_report_Next == cmp_report_okr \/ cmp_report_prodmgt

\* ------------------------------------------------- formatter claims
\* C11 (as claimed): both format_workspace_access functions return
\* has-violation = true for a workspace whose itemColor is not one of
\* yellow, orange, great, blue, whatever its other fields are.
C11_InvalidColorAlwaysFlagged ==
    (cmp_pc = "formatted"
        /\ cmp_input.itemColor \notin {"yellow", "orange", "great", "blue"})
    => cmp_okr.has_red_flag /\ cmp_prodmgt.has_red_flag

\* the same item without its per-user permission map
WithoutUserPermissions(item) == [item EXCEPT !.permissions = EmptyMap]

\* C12: every formatter flags an item whose per-user permission map has
\* an entry for a user other than the viewer, whatever the colour, key,
\* default permission and group entries are; a map that holds the viewer
\* only gives the same flag as an empty map.
C12_DirectUserPermissionFlagged ==
    cmp_pc = "formatted" =>
        LET others == DOMAIN cmp_input.permissions \ {cmp_user_id}
            bare == WithoutUserPermissions(cmp_input)
        IN /\ others # {} =>
                /\ cmp_okr.has_red_flag
                /\ cmp_prodmgt.has_red_flag
                /\ cmp_folder.has_red_flag
           /\ others = {} =>
                /\ cmp_okr.has_red_flag =
                       format_workspace_access(bare, cmp_user_id, 0,
                           cmp_show_all).has_red_flag
                /\ cmp_prodmgt.has_red_flag =
                       prodmgt_format_workspace_access(bare, cmp_user_id, 0,
                           cmp_show_all).has_red_flag
                /\ cmp_folder.has_red_flag =
                       format_folder_access(bare, cmp_user_id, 0,
                           cmp_show_all).has_red_flag

\* an otherwise compliant item
CleanOkrFields(item) ==
    /\ item.itemColor = "yellow"
    /\ item.alias = OKR \o <<"1">>
    /\ item.defaultPermission = "comment"
    /\ DOMAIN item.userGroupPermissions = {}

\* C12 witness: an otherwise compliant item that holds an entry for the
\* viewer and one for another user is flagged by the three formatters.
C12_Witness ==
    /\ cmp_pc = "formatted"
    /\ CleanOkrFields(cmp_input)
    /\ DOMAIN cmp_input.permissions = {cmp_user_id, 2}
    /\ cmp_user_id # 2
    /\ cmp_okr.has_red_flag /\ cmp_prodmgt.has_red_flag
    /\ cmp_folder.has_red_flag

\* the group line of group g ends with "(Wrong)"
GroupFlagged(result, g) ==
    \E i \in 1..Len(result.lines) :
        /\ result.lines[i].kind = "group"
        /\ result.lines[i].ref = g
        /\ result.lines[i].wrong

\* the rule as the specification words it, for a tool's prefix
GroupRuleBroken(prefix, group_name, permission) ==
    \/ ~StartsWith(group_name, prefix) /\ group_name # AirfocusAdmins
    \/ EndsWith(group_name, Suffix_F) /\ permission # "full"
    \/ EndsWith(group_name, Suffix_W) /\ permission # "write"
    \/ EndsWith(group_name, Suffix_F_U) /\ permission # "full"
    \/ EndsWith(group_name, Suffix_W_U) /\ permission # "write"
    \/ EndsWith(group_name, Suffix_C_U) /\ permission # "comment"

\* C13 (as claimed): a per-group entry is flagged iff the group's name
\* neither starts with the tool's prefix nor is the admin group, or ends
\* with _F, _W, _F_U, _W_U, _C_U without the matching permission.
C13_GroupEntryFlaggedIff ==
    cmp_pc = "formatted" =>
        \A g \in DOMAIN cmp_input.userGroupPermissions :
            LET group_name == get_usergroup_name(FmtGroupRegistry, g)
                permission == cmp_input.userGroupPermissions[g]
            IN /\ GroupFlagged(cmp_okr, g)
                    <=> GroupRuleBroken(SP_OKR_, group_name, permission)
               /\ GroupFlagged(cmp_prodmgt, g)
                    <=> GroupRuleBroken(SP_ProdMgt_, group_name, permission)
               /\ GroupFlagged(cmp_folder, g)
                    <=> GroupRuleBroken(SP_ProdMgt_, group_name, permission)

\* C14 (as claimed): the OKR formatter flags a workspace for every value
\* of defaultPermission other than "comment", whatever its other fields.
C14_DefaultMustBeComment ==
    (cmp_pc = "formatted" /\ cmp_input.defaultPermission # "comment")
    => cmp_okr.has_red_flag


\* --------------------------------------------------- report claims
\* the nodes of a hierarchy, at any depth
RECURSIVE NodesOf(_)
NodesOf(nodes) ==
    UNION {{nodes[i]} \cup NodesOf(nodes[i].children)
               \cup (IF "workspaces" \in DOMAIN nodes[i]
                     THEN NodesOf(nodes[i].workspaces) ELSE {})
           : i \in 1..Len(nodes)}

\* the folder or workspace of a node
ItemOf(node) ==
    IF "folder_data" \in DOMAIN node THEN node.folder_data
    ELSE node.workspace

SubtreeIds(node) == {ItemOf(n).id : n \in NodesOf(<<node>>)}

\* some printed line of the item ends with "(Wrong)"
ReportedWrong(id) ==
    \E i \in 1..Len(output) : output[i].item = id /\ output[i].wrong

\* some line of the item is printed
Printed(id) == \E i \in 1..Len(output) : output[i].item = id

\* C15 (as claimed): in the OKR report no workspace that is_okr_workspace
\* classifies as non-OKR has its item key reported as wrong, ancestors
\* of OKR workspaces included.
C15_KeyRuleOnlyForOkr ==
    (cmp_pc = "reported" /\ cmp_input.tool = "okr") =>
        \A node \in NodesOf(cmp_input.roots) :
            ~is_okr_workspace(node.workspace) =>
                ~\E i \in 1..Len(output) :
                    /\ output[i].item = node.workspace.id
                    /\ output[i].kind = "key"
                    /\ output[i].wrong

\* C16 (as claimed): without --all, an item none of whose lines is
\* flagged and that has no flagged item below it produces no output line.
C16_OnlyFlaggedAndAncestors ==
    (cmp_pc = "reported" /\ ~cmp_show_all) =>
        \A node \in NodesOf(cmp_input.roots) :
            (\A id \in SubtreeIds(node) : ~ReportedWrong(id))
                => ~Printed(ItemOf(node).id)

\* ============================================ get_okr_compliance.main
\* the report of the forest build_workspace_hierarchy builds

RunWsIds == 1..MaxRunWs

\* relations between two different workspaces of the run
RunRelation ==
    {r \in [parentId : RunWsIds, childId : RunWsIds] :
        r.parentId # r.childId}

\* the workspaces of a run: non-OKR, compliant OKR, OKR with a wrong colour
RunKinds ==
    {[ns |-> <<"k">>, color |-> "yellow"],
     [ns |-> okr, color |-> "yellow"],
     [ns |-> okr, color |-> "purple"]}

RunWorkspace(id, v) ==
    [id |-> id,
     namespace |-> [kind |-> "str", text |-> v.ns],
     itemType |-> [kind |-> "missing", text |-> <<>>],
     alias |-> OKR \o <<"1">>,
     itemColor |-> v.color,
     defaultPermission |-> "comment",
     permissions |-> EmptyMap,
     userGroupPermissions |-> EmptyMap]

\* workspace_map: the fetched workspace of every id
RunWorkspaceMaps ==
    {[i \in RunWsIds |-> RunWorkspace(i, kinds[i])] :
        kinds \in [RunWsIds -> RunKinds]}

\* build_node puts workspace_map[ws_id] in the node
RECURSIVE node_of(_, _)
node_of(workspace_map, id_node) ==
    [workspace |-> workspace_map[id_node.workspace],
     children |-> [k \in 1..Len(id_node.children) |->
                      node_of(workspace_map, id_node.children[k])]]

run_Init ==
    /\ wh_pc = "start"
    /\ workspaces = [i \in RunWsIds |-> i]
    /\ api_relations \in SeqsUpTo(RunRelation, MaxRunRel)
    /\ relations = <<>>
    /\ children_map = EmptyMap
    /\ parent_map = EmptyMap
    /\ roots = <<>>
    /\ node_map = EmptyMap
    /\ cmp_pc = "fetched"
    /\ \E workspace_map \in RunWorkspaceMaps :
         cmp_input = [tool |-> "okr", workspaces |-> workspace_map,
                      roots |-> <<>>]
    /\ cmp_user_id = 1
    /\ cmp_show_all \in BOOLEAN
    /\ cmp_okr = <<>>
    /\ cmp_prodmgt = <<>>
    /\ cmp_folder = <<>>
    /\ output = <<>>

\* main: "Process each root workspace" of the hierarchy that was built
run_report ==
    /\ wh_pc = "done" /\ cmp_pc = "fetched"
    /\ LET hierarchy_roots ==
               [k \in 1..Len(roots) |->
                   node_of(cmp_input.workspaces, roots[k])]
       IN /\ cmp_input' = [cmp_input EXCEPT !.roots = hierarchy_roots]
          /\ output' = okr_report(hierarchy_roots, 1, cmp_user_id,
                                  cmp_show_all)
    /\ cmp_pc' = "reported"
    /\ UNCHANGED <<cmp_user_id, cmp_show_all, cmp_okr, cmp_prodmgt,
                   cmp_folder>>
    /\ UNCHANGED cmp_others

run_Next ==
    wh_fetch_relations \/ wh_build_maps \/ wh_build_roots \/ run_report

\* the nodes of the forest at each depth, one entry per node
RECURSIVE NodesAtDepth(_, _)
NodesAtDepth(nodes, depth) ==
    IF nodes = <<>> THEN <<>>
    ELSE <<[node |-> nodes[1], depth |-> depth]>>
         \o NodesAtDepth(nodes[1].children, depth + 1)
         \o NodesAtDepth(Tail(nodes), depth)

\* how many times the lines are printed one after the other
TimesPrinted(lines) ==
    Cardinality({i \in 1..(Len(output) - Len(lines) + 1) :
                    SubSeq(output, i, i + Len(lines) - 1) = lines})

\* an OKR workspace the formatter flags
FlaggedOkr(workspace) ==
    /\ is_okr_workspace(workspace)
    /\ format_workspace_access(workspace, cmp_user_id, 0, FALSE).has_red_flag

\* C27: without --all, every node of the forest that holds an OKR
\* workspace the formatter flags is printed, at its depth, with its name
\* line marked (Wrong) and its flagged lines: the lines are printed as
\* many times as the forest has such nodes at that depth.
C27_EveryFlaggedOkrNodePrinted ==
    (cmp_pc = "reported" /\ cmp_input.tool = "okr" /\ ~cmp_show_all) =>
        LET placed == NodesAtDepth(cmp_input.roots, 0)
        IN \A n \in 1..Len(placed) :
               FlaggedOkr(placed[n].node.workspace) =>
                   LET lines == format_workspace_access(
                                    placed[n].node.workspace, cmp_user_id,
                                    placed[n].depth, FALSE).lines
                   IN /\ lines[1].kind = "name" /\ lines[1].wrong
                      /\ Len(lines) > 1
                      /\ TimesPrinted(lines) =
                             Cardinality({m \in 1..Len(placed) :
                                             placed[m] = placed[n]})

\* a flagged OKR workspace two levels below a root, under workspaces that
\* are not OKR, was reported
C27_Witness ==
    /\ cmp_pc = "reported" /\ cmp_input.tool = "okr" /\ ~cmp_show_all
    /\ "workspaces" \in DOMAIN cmp_input
    /\ \E r \in 1..Len(cmp_input.roots) :
         LET root == cmp_input.roots[r]
         IN /\ ~is_okr_workspace(root.workspace)
            /\ \E c \in 1..Len(root.children) :
                 /\ ~is_okr_workspace(root.children[c].workspace)
                 /\ \E g \in 1..Len(root.children[c].children) :
                      LET ws == root.children[c].children[g].workspace
                      IN FlaggedOkr(ws) /\ ReportedWrong(ws.id)

\* ============================== the error checks on a node without children
\* has_errors_in_subtree and has_errors_in_node against the formatters

\* group ids of the registry: SP_OKR_A_F, SP_ProdMgt_A_F, SP_ProdMgt_A_F_U
LeafGroupIds == {1, 6, 8}

\* a workspace or folder without children, as the formatters and the
\* classifier read it
LeafItem ==
    [id : {1},
     namespace : [kind : {"str"}, text : {okr, <<"k">>}],
     itemType : [kind : {"missing"}, text : {<<>>}],
     alias : {OKR \o <<"1">>, <<"C", "M", "S">>},
     itemColor : {"yellow", "purple"},
     defaultPermission : {"comment", "write"},
     permissions : {EmptyMap, 2 :> "write"},
     userGroupPermissions :
         MapsUpTo(LeafGroupIds, {"full", "write"}, MaxLeafGroups)]

cmp_leaf_Init ==
    /\ cmp_pc = "leaf"
    /\ cmp_input \in LeafItem
    /\ cmp_user_id = 1
    /\ cmp_show_all \in BOOLEAN
    /\ cmp_okr = <<>>
    /\ cmp_prodmgt = <<>>
    /\ cmp_folder = <<>>
    /\ output = <<>>
    /\ leaf_depth \in 0..MaxDepth
    /\ leaf_errors = <<>>

leaf_Idle ==
    /\ leaf_depth = 0
    /\ leaf_errors = <<>>

\* the three formatters on the item, at the depth and with the show_all
\* of the caller
cmp_leaf_format ==
    /\ cmp_pc = "leaf"
    /\ cmp_okr' = format_workspace_access(cmp_input, cmp_user_id,
                                          leaf_depth, cmp_show_all)
    /\ cmp_prodmgt' = prodmgt_format_workspace_access(cmp_input,
                          cmp_user_id, leaf_depth, cmp_show_all)
    /\ cmp_folder' = format_folder_access(cmp_input, cmp_user_id,
                                          leaf_depth, cmp_show_all)
    /\ cmp_pc' = "leaf_formatted"
    /\ UNCHANGED <<cmp_input, cmp_user_id, cmp_show_all, output,
                   leaf_depth, leaf_errors>>
    /\ UNCHANGED leaf_others

\* has_errors_in_subtree on the workspace node, has_errors_in_node on
\* the workspace node and on the folder node, with a new cache and with
\* the cache print_folder_hierarchy has filled for the item
cmp_leaf_check ==
    /\ cmp_pc = "leaf_formatted"
    /\ LET ws_node == [workspace |-> cmp_input, children |-> <<>>]
           root_ws_node == [is_folder |-> FALSE, workspace |-> cmp_input,
                            children |-> <<>>]
           folder_node == [is_folder |-> TRUE, folder_data |-> cmp_input,
                           children |-> <<>>, workspaces |-> <<>>]
       IN leaf_errors' =
              [subtree |->
                   has_errors_in_subtree(ws_node, cmp_user_id, {}).r,
               workspace |->
                   has_errors_in_node(root_ws_node, cmp_user_id,
                                      EmptyMap).r,
               workspace_cached |->
                   has_errors_in_node(root_ws_node, cmp_user_id,
                       Put(EmptyMap, cmp_input.id,
                           cmp_prodmgt.has_red_flag)).r,
               folder |->
                   has_errors_in_node(folder_node, cmp_user_id,
                                      EmptyMap).r,
               folder_cached |->
                   has_errors_in_node(folder_node, cmp_user_id,
                       Put(EmptyMap, cmp_input.id,
                           cmp_folder.has_red_flag)).r]
    /\ cmp_pc' = "leaf_checked"
    /\ UNCHANGED <<cmp_input, cmp_user_id, cmp_show_all, cmp_okr,
                   cmp_prodmgt, cmp_folder, output, leaf_depth>>
    /\ UNCHANGED leaf_others

cmp_leaf_Next == cmp_leaf_format \/ cmp_leaf_check

\* C23: on a node without children has_errors_in_subtree (OKR
\* workspace) and has_errors_in_node (non-OKR workspace, folder, with or
\* without the cache) return the flag of the formatter, and that flag
\* does not depend on depth or show_all
C23_LeafErrorIsFormatterFlag ==
    cmp_pc = "leaf_checked" =>
        /\ is_okr_workspace(cmp_input) =>
               leaf_errors.subtree = cmp_okr.has_red_flag
        /\ ~is_okr_workspace(cmp_input) =>
               /\ leaf_errors.workspace = cmp_prodmgt.has_red_flag
               /\ leaf_errors.workspace_cached = cmp_prodmgt.has_red_flag
        /\ leaf_errors.folder = cmp_folder.has_red_flag
        /\ leaf_errors.folder_cached = cmp_folder.has_red_flag
        /\ \A depth \in 0..(MaxDepth + 1), show_all \in BOOLEAN :
               /\ format_workspace_access(cmp_input, cmp_user_id, depth,
                      show_all).has_red_flag = cmp_okr.has_red_flag
               /\ prodmgt_format_workspace_access(cmp_input, cmp_user_id,
                      depth, show_all).has_red_flag
                      = cmp_prodmgt.has_red_flag
               /\ format_folder_access(cmp_input, cmp_user_id, depth,
                      show_all).has_red_flag = cmp_folder.has_red_flag

\* a flagged OKR workspace formatted below the root with show_all, found
\* by has_errors_in_subtree
C23_Witness ==
    /\ cmp_pc = "leaf_checked"
    /\ is_okr_workspace(cmp_input)
    /\ leaf_depth = 1 /\ cmp_show_all
    /\ cmp_okr.has_red_flag
    /\ leaf_errors.subtree
    /\ ~leaf_errors.folder

\* the "Groups:" header lines of a formatter result
GroupsHeaders(result) ==
    {i \in 1..Len(result.lines) : result.lines[i].kind = "groups_header"}

\* C24: with show_all false the line list a formatter returns holds the
\* "Groups:" header at most once, however many group entries are
\* flagged and whatever the colour of the item
C24_GroupsHeaderAtMostOnce ==
    (cmp_pc = "leaf_checked" /\ ~cmp_show_all) =>
        /\ Cardinality(GroupsHeaders(cmp_okr)) <= 1
        /\ Cardinality(GroupsHeaders(cmp_prodmgt)) <= 1
        /\ Cardinality(GroupsHeaders(cmp_folder)) <= 1

\* ======================================= the registry used as a library
\* utils.py: load_registries, the lookups and set_user_role, called in
\* any order by a process (script = "library")

Ann == <<"A", "n", "n">>

Mail == <<"a", "@", "x">>

\* None where a text is expected
NoText == <<NoneValue>>

\* a user id as the text it is
IdAsText(user_id) == <<user_id>>

\* user.get('fullName'), user.get('email'): missing, empty or a text
LibNames == {NoText, <<>>, Ann}

LibEmails == {NoText, <<>>, Mail}

\* no call was made yet
NoCall == [op |-> "none"]

\* how a load_registries call ends: both requests answered, or the
\* users or the groups request fails and make_api_request exits
LoadOutcome == {"ok", "users_failed", "groups_failed"}

\* _user_registry = {user['userId']: user for user in users}
loaded_user_registry(users) ==
    [u \in {users[i].userId : i \in 1..Len(users)} |->
        users[CHOOSE i \in 1..Len(users) :
                  /\ users[i].userId = u
                  /\ \A j \in (i + 1)..Len(users) : users[j].userId # u]]

get_username_email_first(ur, user_id) ==
    IF user_id \in DOMAIN ur
    THEN LET user == ur[user_id]
         IN IF user.email \notin {NoText, <<>>} THEN user.email
            ELSE IF user.fullName \notin {NoText, <<>>} THEN user.fullName
            ELSE IdAsText(user_id)
    ELSE IdAsText(user_id)

\* get_username_from_id(user_id): user.get('fullName') or
\* user.get('email') or user_id; the id is returned as it is
get_username_from_id(ur, user_id) ==
    IF user_id \in DOMAIN ur
    THEN LET user == ur[user_id]
         IN IF user.fullName \notin {NoText, <<>>} THEN user.fullName
            ELSE IF user.email \notin {NoText, <<>>} THEN user.email
            ELSE IdAsText(user_id)
    ELSE IdAsText(user_id)

\* get_groups_by_prefix(prefix)
get_groups_by_prefix(gr, prefix) ==
    SelectSeq(gr, LAMBDA group : StartsWith(group.name, prefix))

excluded_by_suffix_never(group_name, exclude_suffix) == FALSE

\* "if exclude_suffix and group_name.endswith(exclude_suffix): continue"
excluded_by_suffix(group_name, exclude_suffix) ==
    /\ exclude_suffix \notin {NoText, <<>>}
    /\ EndsWith(group_name, exclude_suffix)

\* get_unique_members_by_prefix(prefix, exclude_suffix): the loop over
\* _group_registry.values(); an exclude_suffix of None or "" is not used
RECURSIVE get_unique_members_by_prefix(_, _, _, _, _)
get_unique_members_by_prefix(gr, i, prefix, exclude_suffix, unique_users) ==
    IF i > Len(gr) THEN unique_users
    ELSE LET group_name == gr[i].name
         IN IF ~StartsWith(group_name, prefix)
            THEN get_unique_members_by_prefix(gr, i + 1, prefix,
                                              exclude_suffix, unique_users)
            ELSE IF excluded_by_suffix(group_name, exclude_suffix)
            THEN get_unique_members_by_prefix(gr, i + 1, prefix,
                                              exclude_suffix, unique_users)
            ELSE get_unique_members_by_prefix(gr, i + 1, prefix,
                     exclude_suffix,
                     unique_users \cup Range(gr[i].userIds))

\* get_user_groups(user_id)
get_user_groups(gr, user_id) ==
    SelectSeq(gr, LAMBDA group : user_id \in Range(group.userIds))

\* what the library leaves alone of the scripts' state
lib_unused == <<script, args, api_users, api_groups, member_ids, idx,
                changes_to_make, skip_count, success_count, error_count,
                confirmed, reported, api_workspace_names, api_folder,
                app_id, objective_ws_ids, target_workspaces>>

\* the state a load_registries call leaves and the requests it made
Loaded(ur, gr, loaded, fetches, exited) ==
    [user_registry |-> ur, group_registry |-> gr,
     registries_loaded |-> loaded, fetches |-> fetches, exited |-> exited]

load_registries_again(outcome) ==
    CASE outcome = "ok" ->
           Loaded(loaded_user_registry(api_users), api_groups, TRUE,
                  <<"users", "groups">>, FALSE)
      [] outcome = "users_failed" ->
           Loaded(user_registry, group_registry, registries_loaded,
                  <<"users">>, TRUE)
      [] outcome = "groups_failed" ->
           Loaded(loaded_user_registry(api_users), group_registry,
                  registries_loaded, <<"users", "groups">>, TRUE)

\* load_registries(): returns at once when the registries are loaded;
\* else the users request, the user registry, the groups request, the
\* group registry and the flag, a failed request ending the process
load_registries_once(outcome) ==
    IF registries_loaded
    THEN Loaded(user_registry, group_registry, registries_loaded,
                <<>>, FALSE)
    ELSE CASE outcome = "ok" ->
                Loaded(loaded_user_registry(api_users), api_groups, TRUE,
                       <<"users", "groups">>, FALSE)
           [] outcome = "users_failed" ->
                Loaded(user_registry, group_registry, registries_loaded,
                       <<"users">>, TRUE)
           [] outcome = "groups_failed" ->
                Loaded(loaded_user_registry(api_users), group_registry,
                       registries_loaded, <<"users", "groups">>, TRUE)

\* "if not _registries_loaded: load_registries()" of every lookup
ensure_loaded(outcome) ==
    IF ~registries_loaded THEN load_registries_once(outcome)
    ELSE Loaded(user_registry, group_registry, registries_loaded,
                <<>>, FALSE)

\* the calling process is alive
lib_running == script = "library" /\ sc_pc = "running"

\* one call of a registry function: load if needed, then look up
lib_call(op, call_args, Load(_), Result(_, _)) ==
    /\ \E outcome \in IF registries_loaded THEN {"ok"} ELSE LoadOutcome :
        LET loaded == Load(outcome)
        IN /\ user_registry' = loaded.user_registry
           /\ group_registry' = loaded.group_registry
           /\ registries_loaded' = loaded.registries_loaded
           /\ IF loaded.exited THEN ExitWith(1)
              ELSE UNCHANGED <<sc_pc, exit_code>>
           /\ last_call' =
                  [op |-> op, args |-> call_args,
                   loaded_before |-> registries_loaded,
                   fetches |-> loaded.fetches,
                   before |-> user_registry,
                   outcome |-> outcome,
                   exited |-> loaded.exited,
                   result |-> IF loaded.exited THEN NoneValue
                              ELSE Result(loaded.user_registry,
                                          loaded.group_registry)]
    /\ UNCHANGED <<lib_unused, requests>>
    /\ UNCHANGED lib_others

lib_load_registries ==
    /\ lib_running
    /\ lib_call("load_registries", <<>>, load_registries_once,
                LAMBDA ur, gr : NoneValue)

lib_get_username_from_id ==
    /\ lib_running
    /\ \E user_id \in 1..UnknownUser :
           lib_call("get_username_from_id", <<user_id>>, ensure_loaded,
                    LAMBDA ur, gr : get_username_from_id(ur, user_id))

lib_get_usergroup_name ==
    /\ lib_running
    /\ \E group_id \in 1..(MaxLibGroups + 1) :
           lib_call("get_usergroup_name", <<group_id>>, ensure_loaded,
                    LAMBDA ur, gr : get_usergroup_name(gr, group_id))

lib_get_user_role ==
    /\ lib_running
    /\ \E user_id \in 1..UnknownUser :
           lib_call("get_user_role", <<user_id>>, ensure_loaded,
                    LAMBDA ur, gr : get_user_role(ur, user_id))

lib_get_group_members ==
    /\ lib_running
    /\ \E group_id \in 1..(MaxLibGroups + 1) :
           lib_call("get_group_members", <<group_id>>, ensure_loaded,
                    LAMBDA ur, gr : get_group_members(gr, group_id))

lib_get_group_by_name ==
    /\ lib_running
    /\ \E group_name \in GroupNames \cup {UnknownGroupName} :
           lib_call("get_group_by_name", <<group_name>>, ensure_loaded,
                    LAMBDA ur, gr : get_group_by_name(gr, group_name))

lib_get_groups_by_prefix ==
    /\ lib_running
    /\ \E prefix \in {SP_OKR_, SP_ProdMgt_} :
           lib_call("get_groups_by_prefix", <<prefix>>, ensure_loaded,
                    LAMBDA ur, gr : get_groups_by_prefix(gr, prefix))

lib_get_unique_members_by_prefix ==
    /\ lib_running
    /\ \E prefix \in {SP_OKR_},
          exclude_suffix \in {NoText, <<>>, Suffix_C_U} :
           lib_call("get_unique_members_by_prefix", <<prefix, exclude_suffix>>, ensure_loaded,
                    LAMBDA ur, gr :
                        get_unique_members_by_prefix(gr, 1, prefix,
                                                     exclude_suffix, {}))

lib_get_user_groups ==
    /\ lib_running
    /\ \E user_id \in 1..UnknownUser :
           lib_call("get_user_groups", <<user_id>>, ensure_loaded,
                    LAMBDA ur, gr : get_user_groups(gr, user_id))

\* set_user_role(user_id, role) called with any role; it does not load
\* the registries
lib_set_user_role ==
    /\ lib_running
    /\ Len(requests) < MaxRoleCalls
    /\ \E user_id \in 1..UnknownUser, role \in valid_roles \cup {"owner"},
          outcome \in ApiOutcome, result \in {"True", "False", "exit"} :
        /\ set_user_role(user_id, role, outcome, result)
        /\ IF result = "exit" THEN ExitWith(1)
           ELSE UNCHANGED <<sc_pc, exit_code>>
        /\ last_call' =
               [op |-> "set_user_role", args |-> <<user_id, role>>,
                loaded_before |-> registries_loaded,
                fetches |-> <<>>,
                before |-> user_registry,
                outcome |-> outcome,
                requested |-> requests' # requests,
                exited |-> result = "exit",
                result |-> result]
    /\ UNCHANGED <<lib_unused, group_registry, registries_loaded>>
    /\ UNCHANGED lib_others

\* the groups the server may hold for the library
LibGroup ==
    [name : {SP_OKR_ \o <<"A">> \o Suffix_F,
             SP_OKR_ \o <<"B">> \o Suffix_C_U,
             <<"T", "e", "a", "m">>},
     userIds : SeqsUpTo(UserIds, MaxLibMembers)]

LibGroups(groups) ==
    [i \in 1..Len(groups) |->
        [id |-> i, name |-> groups[i].name, userIds |-> groups[i].userIds]]

lib_common_Init ==
    /\ sc_common_Init
    /\ script = "library"
    /\ sc_pc = "running"
    /\ args = <<>>
    /\ api_workspace_names = EmptyMap
    /\ api_folder = [exists |-> FALSE, workspaces |-> <<>>]
    /\ last_call = NoCall

\* a process that calls the registry functions and set_user_role
lib_registry_Init ==
    /\ lib_common_Init
    /\ \E r \in [UserIds -> {"admin", "editor", "contributor"}] :
          api_users = [i \in UserIds |->
                          [userId |-> i, fullName |-> Ann, email |-> Mail,
                           role |-> r[i]]]
    /\ api_groups \in
           {LibGroups(<<>>),
            LibGroups(<<[name |-> SP_OKR_ \o <<"A">> \o Suffix_F,
                         userIds |-> <<1, 2>>],
                        [name |-> <<"T", "e", "a", "m">>,
                         userIds |-> <<2, UnknownUser>>]>>)}

lib_registry_Next ==
    \/ lib_load_registries
    \/ lib_get_username_from_id
    \/ lib_get_usergroup_name
    \/ lib_get_user_role
    \/ lib_get_group_members
    \/ lib_get_group_by_name
    \/ lib_get_groups_by_prefix
    \/ lib_get_unique_members_by_prefix
    \/ lib_get_user_groups
    \/ lib_set_user_role

\* a process that looks names and members up: either the users or the
\* groups the server holds are drawn
lib_lookup_Init ==
    /\ lib_common_Init
    /\ \/ /\ \E n \in [UserIds -> LibNames], e \in [UserIds -> LibEmails] :
                api_users = [i \in UserIds |->
                                [userId |-> i, fullName |-> n[i],
                                 email |-> e[i], role |-> "editor"]]
          /\ api_groups = <<>>
       \/ /\ api_users = [i \in UserIds |->
                             [userId |-> i, fullName |-> Ann,
                              email |-> Mail, role |-> "editor"]]
          /\ \E g \in SeqsUpTo(LibGroup, MaxLibGroups) :
                api_groups = LibGroups(g)

lib_lookup_Next ==
    \/ lib_load_registries
    \/ lib_get_username_from_id
    \/ lib_get_unique_members_by_prefix

LookupOps ==
    {"get_username_from_id", "get_usergroup_name", "get_user_role",
     "get_group_members", "get_group_by_name", "get_groups_by_prefix",
     "get_unique_members_by_prefix", "get_user_groups"}

\* C17: once the registries are loaded, a further load_registries call
\* and every registry lookup issue no API request (and leave the
\* process running)
C17_NoRequestOnceLoaded ==
    (last_call.op \in LookupOps \cup {"load_registries"}
     /\ last_call.loaded_before)
    => /\ last_call.fetches = <<>>
       /\ ~last_call.exited

\* a lookup answered from the loaded registries
C17_Witness ==
    /\ last_call.op = "get_user_groups"
    /\ last_call.loaded_before
    /\ last_call.fetches = <<>>
    /\ Len(last_call.result) = 2

\* C18: the cached role of a user changes only through a set_user_role
\* call with a valid role whose request succeeded, and then becomes that
\* role for that user only; an invalid role makes no request; an invalid
\* role or a failed request returns False and leaves the registry as it
\* was
C18_RoleChangesOnlyBySuccessfulCall ==
    /\ last_call.op \in LookupOps \cup {"load_registries"} =>
           \A u \in DOMAIN last_call.before \cap DOMAIN user_registry :
               user_registry[u].role = last_call.before[u].role
    /\ last_call.op = "set_user_role" =>
           LET user_id == last_call.args[1]
               role == last_call.args[2]
               succeeded == role \in {"admin", "editor", "contributor"}
                            /\ last_call.outcome = "ok"
           IN /\ succeeded =>
                     /\ DOMAIN user_registry = DOMAIN last_call.before
                     /\ \A u \in DOMAIN user_registry :
                            user_registry[u] =
                                IF u = user_id
                                THEN [last_call.before[u]
                                          EXCEPT !.role = role]
                                ELSE last_call.before[u]
              /\ role \notin {"admin", "editor", "contributor"} =>
                     ~last_call.requested
              /\ ~succeeded =>
                     /\ last_call.result = "False"
                     /\ user_registry = last_call.before

Present(text) == text \notin {NoText, <<>>}

\* C19: for an id in the user registry get_username_from_id returns the
\* display name if present, else the email if present, else the id; for
\* an id not in the registry it returns the id
C19_NameThenEmailThenId ==
    (last_call.op = "get_username_from_id" /\ ~last_call.exited) =>
        LET user_id == last_call.args[1]
            result == last_call.result
        IN /\ user_id \notin DOMAIN user_registry =>
                  result = IdAsText(user_id)
           /\ user_id \in DOMAIN user_registry =>
                  LET user == user_registry[user_id]
                  IN /\ Present(user.fullName) => result = user.fullName
                     /\ (~Present(user.fullName) /\ Present(user.email))
                            => result = user.email
                     /\ (~Present(user.fullName) /\ ~Present(user.email))
                            => result = IdAsText(user_id)

\* a user with both a display name and an email, answered by the name
C19_Witness ==
    /\ last_call.op = "get_username_from_id"
    /\ ~last_call.exited
    /\ last_call.args[1] \in DOMAIN user_registry
    /\ user_registry[last_call.args[1]].fullName = Ann
    /\ user_registry[last_call.args[1]].email = Mail
    /\ last_call.result = Ann

\* C20: a user is in the result of get_unique_members_by_prefix iff they
\* belong to at least one registry group whose name starts with the
\* prefix and, when exclude_suffix is given, does not end with it
C20_UnionOfMatchingGroups ==
    (last_call.op = "get_unique_members_by_prefix" /\ ~last_call.exited) =>
        LET prefix == last_call.args[1]
            exclude_suffix == last_call.args[2]
            gr == group_registry
        IN \A u \in 1..(UnknownUser + 1) :
               u \in last_call.result <=>
                   \E i \in 1..Len(gr) :
                       /\ StartsWith(gr[i].name, prefix)
                       /\ Present(exclude_suffix) =>
                              ~EndsWith(gr[i].name, exclude_suffix)
                       /\ u \in Range(gr[i].userIds)

\* two groups with the prefix share a member, a group with the excluded
\* suffix is left out
C20_Witness ==
    /\ last_call.op = "get_unique_members_by_prefix"
    /\ ~last_call.exited
    /\ last_call.args = <<SP_OKR_, Suffix_C_U>>
    /\ Len(group_registry) = 2
    /\ EndsWith(group_registry[1].name, Suffix_F)
    /\ EndsWith(group_registry[2].name, Suffix_C_U)
    /\ group_registry[1].userIds = <<1, 1>>
    /\ group_registry[2].userIds = <<2>>
    /\ last_call.result = {1}

\* the classifier is not running
okr_Idle ==
    /\ okr_pc = "idle"
    /\ okr_workspace = <<>>
    /\ okr_compliance = FALSE
    /\ okr_access = FALSE

\* =========================================== the paginated workspace fetch
\* get_okr_compliance.get_all_workspaces and utils.get_user_workspaces

\* limit = 1000 in the code; pages of two items keep the collections small
limit == 2

\* the user whose direct permissions get_user_workspaces looks for
PgUser == 1

\* a workspace of the collection: its id and the user ids with a direct
\* permission (_embedded.permissions)
PgWorkspace(id) == [id : {id}, permissions : {{}, {PgUser}}]

\* the collections of n workspaces, ids in sort order
PgCollections(n) ==
    {c \in [1..n -> UNION {PgWorkspace(i) : i \in 1..n}] :
        \A i \in 1..n : c[i].id = i}

Min(a, b) == IF a < b THEN a ELSE b

\* POST /api/workspaces/search with params offset and limit: the server
\* returns the items from offset on, at most page_size of them and at
\* most the requested limit, and the size of the collection
search_response(collection, page_size, offset, requested_limit) ==
    LET n == Len(collection)
        count == Min(Min(page_size, requested_limit),
                     IF offset < n THEN n - offset ELSE 0)
    IN [items |-> SubSeq(collection, offset + 1, offset + count),
        totalItems |-> n]

pg_Init ==
    /\ pg_pc = "loop"
    /\ pg_fn \in {"get_all_workspaces", "get_user_workspaces"}
    /\ \E n \in 0..MaxTotal : pg_collection \in PgCollections(n)
    /\ pg_page_size \in 1..limit
    /\ pg_offset = 0
    /\ pg_all = <<>>
    /\ pg_offsets = <<>>
    /\ pg_result = <<>>

pg_Idle ==
    /\ pg_pc = "idle"
    /\ pg_fn = "none"
    /\ pg_collection = <<>>
    /\ pg_page_size = 0
    /\ pg_offset = 0
    /\ pg_all = <<>>
    /\ pg_offsets = <<>>
    /\ pg_result = <<>>

\* one pass of "while True": the request, all_workspaces.extend(items),
\* then break or offset += limit
pg_fetch_page ==
    /\ pg_pc = "loop"
    /\ LET response == search_response(pg_collection, pg_page_size,
                                       pg_offset, limit)
       IN /\ pg_offsets' = Append(pg_offsets, pg_offset)
          /\ pg_all' = pg_all \o response.items
          /\ IF pg_offset + limit >= response.totalItems
             THEN /\ pg_pc' = "loaded"
                  /\ UNCHANGED pg_offset
             ELSE /\ pg_pc' = "loop"
                  /\ pg_offset' = pg_offset + limit
    /\ UNCHANGED <<pg_fn, pg_collection, pg_page_size, pg_result>>
    /\ UNCHANGED pg_others

\* get_all_workspaces: return all_workspaces
pg_return_all ==
    /\ pg_pc = "loaded" /\ pg_fn = "get_all_workspaces"
    /\ pg_result' = pg_all
    /\ pg_pc' = "done"
    /\ UNCHANGED <<pg_fn, pg_collection, pg_page_size, pg_offset, pg_all,
                   pg_offsets>>
    /\ UNCHANGED pg_others

\* get_user_workspaces: the workspaces with a direct permission of the
\* user
pg_return_user_workspaces ==
    /\ pg_pc = "loaded" /\ pg_fn = "get_user_workspaces"
    /\ pg_result' = SelectSeq(pg_all,
                              LAMBDA workspace :
                                  PgUser \in workspace.permissions)
    /\ pg_pc' = "done"
    /\ UNCHANGED <<pg_fn, pg_collection, pg_page_size, pg_offset, pg_all,
                   pg_offsets>>
    /\ UNCHANGED pg_others

pg_Next ==
    \/ pg_fetch_page
    \/ pg_return_all
    \/ pg_return_user_workspaces

\* C21: the fetch asks for offsets 0, limit, 2*limit, ... and, when it
\* has returned, all_workspaces holds every workspace of the collection
\* exactly once, whatever the size of the collection and however many
\* items the server puts in one response
C21_EveryItemExactlyOnce ==
    /\ \A k \in 1..Len(pg_offsets) : pg_offsets[k] = (k - 1) * limit
    /\ pg_pc = "done" =>
           \A i \in 1..Len(pg_collection) :
               Cardinality({k \in 1..Len(pg_all) :
                               pg_all[k].id = pg_collection[i].id}) = 1

\* ================================================== set_field_options.py
\* main with --input, utils.reorder_field_options, utils.add_field_options

OptionNames == {"a", "b", "c"}

\* the id of an option is a string: digits, written by their number, or
\* a string that is not made of digits
DigitsId(n) == [isdigit |-> TRUE, text |-> n]

OptionIds ==
    {DigitsId(n) : n \in 1..MaxOptions} \cup {[isdigit |-> FALSE, text |-> 0]}

Option == [id : OptionIds, name : OptionNames]

\* the option lists a field can have: ids and names are not repeated
FieldOptions ==
    {o \in SeqsUpTo(Option, MaxOptions) :
        \A i, j \in 1..Len(o) :
            i # j => (o[i].id # o[j].id /\ o[i].name # o[j].name)}

NamesOf(options) == [i \in 1..Len(options) |-> options[i].name]

\* options_by_name = {opt.get('name'): opt for opt in current_options}:
\* the last option of a name
options_by_name(current_options, name) ==
    current_options[CHOOSE i \in 1..Len(current_options) :
        /\ current_options[i].name = name
        /\ \A j \in (i + 1)..Len(current_options) :
               current_options[j].name # name]

\* "for name in ordered_option_names: if name in options_by_name:
\* reordered_options.append(options_by_name[name])"
RECURSIVE options_in_order(_, _, _)
options_in_order(current_options, ordered_option_names, i) ==
    IF i > Len(ordered_option_names) THEN <<>>
    ELSE (IF ordered_option_names[i] \in Range(NamesOf(current_options))
          THEN <<options_by_name(current_options, ordered_option_names[i])>>
          ELSE <<>>)
         \o options_in_order(current_options, ordered_option_names, i + 1)

\* reorder_field_options: settings['options'] of the PUT request
reorder_field_options(current_options, ordered_option_names) ==
    LET reordered_options ==
            options_in_order(current_options, ordered_option_names, 1)
        found_names == Range(ordered_option_names)
                           \cap Range(NamesOf(current_options))
    IN reordered_options
       \o SelectSeq(current_options, LAMBDA opt : opt.name \notin found_names)

\* "max_id = max(max_id, int(opt_id))" over the ids that are digits
max_id_of(current_options) ==
    LET digits == {current_options[i].id.text :
                       i \in {j \in 1..Len(current_options) :
                                  current_options[j].id.isdigit}}
    IN IF digits = {} THEN 0
       ELSE CHOOSE m \in digits : \A d \in digits : d <= m

\* add_field_options: settings['options'] of the PUT request
add_field_options(current_options, new_option_names) ==
    current_options
    \o [i \in 1..Len(new_option_names) |->
           [id |-> DigitsId(max_id_of(current_options) + (i - 1) + 1),
            name |-> new_option_names[i]]]

\* main, add mode: to_add_ordered
to_add_ordered(current_options, input_opts_list) ==
    LET to_add == Range(input_opts_list) \ Range(NamesOf(current_options))
    IN SelectSeq(input_opts_list, LAMBDA opt : opt \in to_add)

fo_Init ==
    /\ fo_pc = "input"
    /\ fo_reorder \in BOOLEAN
    /\ fo_field_options \in FieldOptions
    /\ fo_input \in SeqsUpTo(OptionNames, MaxInput)
    /\ fo_sent = <<>>
    /\ fo_exit = -1

fo_Idle ==
    /\ fo_pc = "idle"
    /\ fo_reorder = FALSE
    /\ fo_field_options = <<>>
    /\ fo_input = <<>>
    /\ fo_sent = <<>>
    /\ fo_exit = -1

\* main after the input file was read: reorder mode and add mode with
\* something to add go to the prompt, else "No new options to add"
fo_read_input ==
    /\ fo_pc = "input"
    /\ IF fo_reorder
          \/ Range(fo_input) \ Range(NamesOf(fo_field_options)) # {}
       THEN fo_pc' = "prompt"
       ELSE fo_pc' = "done"
    /\ UNCHANGED <<fo_reorder, fo_field_options, fo_input, fo_sent, fo_exit>>
    /\ UNCHANGED fo_others

\* the confirmation prompt
fo_confirm ==
    /\ fo_pc = "prompt"
    /\ \E confirm \in {"y", "n"} :
        IF confirm # "y"
        THEN fo_pc' = "exited" /\ fo_exit' = 0
        ELSE fo_pc' = "apply" /\ UNCHANGED fo_exit
    /\ UNCHANGED <<fo_reorder, fo_field_options, fo_input, fo_sent>>
    /\ UNCHANGED fo_others

\* reorder_field_options / add_field_options: the field is fetched and
\* the new option list is sent, or a request fails and the process exits
fo_apply ==
    /\ fo_pc = "apply"
    /\ \E outcome \in {"ok", "http_error"} :
        IF outcome = "ok"
        THEN /\ fo_sent' =
                    <<IF fo_reorder
                      THEN reorder_field_options(fo_field_options, fo_input)
                      ELSE add_field_options(fo_field_options,
                               to_add_ordered(fo_field_options, fo_input))>>
             /\ fo_pc' = "done"
             /\ UNCHANGED fo_exit
        ELSE /\ fo_pc' = "exited" /\ fo_exit' = 1
             /\ UNCHANGED fo_sent
    /\ UNCHANGED <<fo_reorder, fo_field_options, fo_input>>
    /\ UNCHANGED fo_others

fo_Next == fo_read_input \/ fo_confirm \/ fo_apply

\* the names of a list, each kept at its first occurrence
RECURSIVE FirstOccurrences(_)
FirstOccurrences(names) ==
    IF names = <<>> THEN <<>>
    ELSE LET front == FirstOccurrences(SubSeq(names, 1, Len(names) - 1))
             last == names[Len(names)]
         IN IF last \in Range(front) THEN front ELSE Append(front, last)

OptionNamed(options, name) ==
    options[CHOOSE i \in 1..Len(options) : options[i].name = name]

\* C25 (as claimed): the list a reorder sends is a permutation of the
\* field's options: the options named in the input, each once, in input
\* order, then the options not named, in their original order.
C25_ReorderSendsPermutation ==
    (fo_pc = "done" /\ fo_reorder /\ Len(fo_sent) = 1) =>
        LET named == SelectSeq(FirstOccurrences(fo_input),
                         LAMBDA n : n \in Range(NamesOf(fo_field_options)))
        IN fo_sent[1] =
               [i \in 1..Len(named) |-> OptionNamed(fo_field_options, named[i])]
               \o SelectSeq(fo_field_options,
                      LAMBDA opt : opt.name \notin Range(fo_input))

\* C30 (as claimed): the list add mode sends is the field's options
\* unchanged, then one new option per input name not already present, a
\* repeated name once, and no two options of the list share an id.
C30_AddSendsEachNewNameOnce ==
    (fo_pc = "done" /\ ~fo_reorder /\ Len(fo_sent) = 1) =>
        LET sent == fo_sent[1]
            new_names == SelectSeq(FirstOccurrences(fo_input),
                             LAMBDA n : n \notin Range(NamesOf(fo_field_options)))
            added == SubSeq(sent, Len(fo_field_options) + 1, Len(sent))
        IN /\ Len(sent) >= Len(fo_field_options)
           /\ SubSeq(sent, 1, Len(fo_field_options)) = fo_field_options
           /\ NamesOf(added) = new_names
           /\ \A i, j \in 1..Len(sent) : i # j => sent[i].id # sent[j].id

\* ==================================================== get_license_usage.py
\* analyze_license_usage and display_license_summary

LicUserIds == 1..MaxLicUsers

LicRoles == {"admin", "editor", "contributor"}

\* a group's userIds: each member once
LicMembers ==
    {m \in SeqsUpTo(LicUserIds, MaxLicUsers) :
        \A i, j \in 1..Len(m) : i < j => m[i] < m[j]}

LicGroup ==
    [name : {SP_OKR_ \o <<"A">> \o Suffix_F,
             SP_OKR_ \o <<"B">> \o Suffix_C_U,
             SP_ProdMgt_ \o <<"A">> \o Suffix_F,
             SP_ProdMgt_ \o <<"B">> \o Suffix_C_U,
             <<"T", "e", "a", "m">>},
     userIds : LicMembers]

analysis_of(okr_users, prodmgt_users, editors_not_in_groups, admin_count) ==
    [admin_count |-> admin_count,
     okr_count |-> Cardinality(okr_users),
     prodmgt_count |-> Cardinality(prodmgt_users),
     editors_not_in_groups_count |-> Cardinality(editors_not_in_groups),
     editors_not_in_groups |-> editors_not_in_groups,
     shared_count |-> Cardinality(okr_users \cap prodmgt_users),
     okr_only_count |-> Cardinality(okr_users \ prodmgt_users),
     effective_count |->
         Cardinality(okr_users \cup prodmgt_users \cup editors_not_in_groups)
             + admin_count]

analyze_license_usage(ur, gr) ==
    analysis_of(
        get_unique_members_by_prefix(gr, 1, SP_OKR_, NoText, {}),
        get_unique_members_by_prefix(gr, 1, SP_ProdMgt_, Suffix_C_U, {}),
        get_users_not_in_specific_groups(gr, ur, {SP_OKR_, SP_ProdMgt_},
                                         Suffix_C_U, "editor"),
        Cardinality({user_id \in DOMAIN ur : ur[user_id].role = "admin"}))

NoAnalysis == [admin_count |-> -1]

lic_Init ==
    /\ lic_pc = "start"
    /\ lic_user_registry \in [LicUserIds -> [role : LicRoles]]
    /\ lic_group_registry \in SeqsUpTo(LicGroup, MaxLicGroups)
    /\ lic_analysis = NoAnalysis
    /\ lic_printed = <<>>

lic_Idle ==
    /\ lic_pc = "idle"
    /\ lic_user_registry = <<>>
    /\ lic_group_registry = <<>>
    /\ lic_analysis = NoAnalysis
    /\ lic_printed = <<>>

\* main: analysis = analyze_license_usage(...)
lic_analyze ==
    /\ lic_pc = "start"
    /\ lic_analysis' =
           analyze_license_usage(lic_user_registry, lic_group_registry)
    /\ lic_pc' = "analysed"
    /\ UNCHANGED <<lic_user_registry, lic_group_registry, lic_printed>>
    /\ UNCHANGED lic_others

\* display_license_summary: the "Effective License Usage" lines
lic_display ==
    /\ lic_pc = "analysed"
    /\ LET prodmgt_licenses == lic_analysis.prodmgt_count
                                   + lic_analysis.editors_not_in_groups_count
       IN lic_printed' = <<lic_analysis.okr_only_count, prodmgt_licenses,
                           lic_analysis.effective_count,
                           lic_analysis.admin_count>>
    /\ lic_pc' = "done"
    /\ UNCHANGED <<lic_user_registry, lic_group_registry, lic_analysis>>
    /\ UNCHANGED lic_others

lic_Next == lic_analyze \/ lic_display

\* the members of the groups whose name starts with prefix
LicMembersOf(prefix) ==
    UNION {Range(lic_group_registry[i].userIds) :
             i \in {j \in 1..Len(lic_group_registry) :
                       StartsWith(lic_group_registry[j].name, prefix)}}

\* the members of the SP_ProdMgt_ groups whose name does not end in _C_U
LicProdMgtMembers ==
    UNION {Range(lic_group_registry[i].userIds) :
             i \in {j \in 1..Len(lic_group_registry) :
                       /\ StartsWith(lic_group_registry[j].name, SP_ProdMgt_)
                       /\ ~EndsWith(lic_group_registry[j].name, Suffix_C_U)}}

LicensedUsers ==
    {u \in LicUserIds : lic_user_registry[u].role = "admin"}
    \cup LicMembersOf(SP_OKR_)
    \cup LicProdMgtMembers
    \cup {u \in LicUserIds :
             /\ lic_user_registry[u].role = "editor"
             /\ u \notin LicMembersOf(SP_OKR_) \cup LicProdMgtMembers}

\* C26 (as claimed): effective_count is the number of distinct users that
\* are admins, SP_OKR_ members, SP_ProdMgt_ members outside _C_U groups or
\* editors outside those groups, and it is the sum of the printed breakdown
\* admin_count + okr_only_count + prodmgt_count + editors_not_in_groups_count.
C26_EffectiveCountIsDistinctUsers ==
    lic_pc = "done" =>
        /\ lic_analysis.effective_count = Cardinality(LicensedUsers)
        /\ lic_analysis.effective_count =
               lic_analysis.admin_count + lic_analysis.okr_only_count
                   + lic_analysis.prodmgt_count
                   + lic_analysis.editors_not_in_groups_count

\* no registry function has been called through the library
lib_Idle ==
    /\ last_call = NoCall

InitHierarchy ==
    /\ wh_Init
    /\ fh_Idle
    /\ sc_Idle
    /\ okr_Idle
    /\ cmp_Idle
    /\ lib_Idle
    /\ pg_Idle
    /\ leaf_Idle
    /\ fo_Idle
    /\ lic_Idle

SpecHierarchy ==
    InitHierarchy /\ [][wh_Next]_vars

InitFolder ==
    /\ fh_Init
    /\ wh_Idle
    /\ sc_Idle
    /\ okr_Idle
    /\ cmp_Idle
    /\ lib_Idle
    /\ pg_Idle
    /\ leaf_Idle
    /\ fo_Idle
    /\ lic_Idle

SpecFolder ==
    InitFolder /\ [][fh_Next]_vars

InitScripts ==
    /\ sc_Init
    /\ wh_Idle
    /\ fh_Idle
    /\ okr_Idle
    /\ cmp_Idle
    /\ lib_Idle
    /\ pg_Idle
    /\ leaf_Idle
    /\ fo_Idle
    /\ lic_Idle

SpecScripts ==
    InitScripts /\ [][sc_Next]_vars

InitOkr ==
    /\ okr_Init
    /\ wh_Idle
    /\ fh_Idle
    /\ sc_Idle
    /\ cmp_Idle
    /\ lib_Idle
    /\ pg_Idle
    /\ leaf_Idle
    /\ fo_Idle
    /\ lic_Idle

SpecOkr ==
    InitOkr /\ [][okr_Next]_vars

InitFormat ==
    /\ cmp_format_Init
    /\ wh_Idle
    /\ fh_Idle
    /\ sc_Idle
    /\ okr_Idle
    /\ lib_Idle
    /\ pg_Idle
    /\ leaf_Idle
    /\ fo_Idle
    /\ lic_Idle

SpecFormat ==
    InitFormat /\ [][cmp_format_Next]_vars

InitReport ==
    /\ cmp_report_Init
    /\ wh_Idle
    /\ fh_Idle
    /\ sc_Idle
    /\ okr_Idle
    /\ lib_Idle
    /\ pg_Idle
    /\ leaf_Idle
    /\ fo_Idle
    /\ lic_Idle

SpecReport ==
    InitReport /\ [][cmp_report_Next]_vars

InitRegistry ==
    /\ lib_registry_Init
    /\ wh_Idle
    /\ fh_Idle
    /\ okr_Idle
    /\ cmp_Idle
    /\ pg_Idle
    /\ leaf_Idle
    /\ fo_Idle
    /\ lic_Idle

SpecRegistry ==
    InitRegistry /\ [][lib_registry_Next]_vars

InitLookup ==
    /\ lib_lookup_Init
    /\ wh_Idle
    /\ fh_Idle
    /\ okr_Idle
    /\ cmp_Idle
    /\ pg_Idle
    /\ leaf_Idle
    /\ fo_Idle
    /\ lic_Idle

SpecLookup ==
    InitLookup /\ [][lib_lookup_Next]_vars
InitPages ==
    /\ pg_Init
    /\ wh_Idle
    /\ fh_Idle
    /\ sc_Idle
    /\ okr_Idle
    /\ cmp_Idle
    /\ lib_Idle
    /\ leaf_Idle
    /\ fo_Idle
    /\ lic_Idle

SpecPages ==
    InitPages /\ [][pg_Next]_vars
InitLeaf ==
    /\ cmp_leaf_Init
    /\ wh_Idle
    /\ fh_Idle
    /\ sc_Idle
    /\ okr_Idle
    /\ lib_Idle
    /\ pg_Idle
    /\ fo_Idle
    /\ lic_Idle

SpecLeaf ==
    InitLeaf /\ [][cmp_leaf_Next]_vars
InitOptions ==
    /\ fo_Init
    /\ wh_Idle
    /\ fh_Idle
    /\ sc_Idle
    /\ okr_Idle
    /\ cmp_Idle
    /\ lib_Idle
    /\ pg_Idle
    /\ leaf_Idle
    /\ lic_Idle

SpecOptions ==
    InitOptions /\ [][fo_Next]_vars
InitLicense ==
    /\ lic_Init
    /\ wh_Idle
    /\ fh_Idle
    /\ sc_Idle
    /\ okr_Idle
    /\ cmp_Idle
    /\ lib_Idle
    /\ pg_Idle
    /\ leaf_Idle
    /\ fo_Idle

SpecLicense ==
    InitLicense /\ [][lic_Next]_vars
InitRun ==
    /\ run_Init
    /\ fh_Idle
    /\ sc_Idle
    /\ okr_Idle
    /\ lib_Idle
    /\ pg_Idle
    /\ leaf_Idle
    /\ fo_Idle
    /\ lic_Idle

SpecRun ==
    InitRun /\ [][run_Next]_vars
====
